---- MODULE Spec2Model ----
(***************************************************************************)
(* Model of the helixbox paymaster: the multi-chain PaymasterService, its  *)
(* JSON-RPC dispatcher, and the two earlier drafts of the service that the *)
(* repository still carries.                                               *)
(*                                                                         *)
(* Representation.  A hex string "0x..." is the sequence of its nibbles,   *)
(* most significant first (two nibbles per byte).  A BigInt that cannot be *)
(* negative is the normalised nibble sequence of its value (no leading     *)
(* zero nibble, 0 is <<>>); a BigInt that can be negative is a record      *)
(* [neg, mag].  JavaScript numbers that stay below 2^31 (Unix seconds,     *)
(* gas heuristics) are TLA+ integers.  A call that may throw returns       *)
(* [ok |-> FALSE, ...].  keccak256 is an injective constructor.            *)
(***************************************************************************)
EXTENDS Integers, Sequences, FiniteSets, TLC

(***************************************************************************)
(* Nibble-sequence arithmetic (JavaScript BigInt, exact at any width).     *)
(***************************************************************************)
Nibble == 0..15

Zeros(n) == [i \in 1..n |-> 0]

Reverse(s) == [i \in 1..Len(s) |-> s[Len(s) + 1 - i]]

RECURSIVE StripZeros(_)
StripZeros(s) ==
    IF s = <<>> THEN <<>>
    ELSE IF Head(s) = 0 THEN StripZeros(Tail(s)) ELSE s

RECURSIVE NatToNibbles(_)
NatToNibbles(n) ==
    IF n = 0 THEN <<>> ELSE Append(NatToNibbles(n \div 16), n % 16)

RECURSIVE NibblesToNat(_)
NibblesToNat(s) ==
    IF s = <<>> THEN 0
    ELSE 16 * NibblesToNat(SubSeq(s, 1, Len(s) - 1)) + s[Len(s)]

PadLeft(s, n) == IF Len(s) >= n THEN s ELSE Zeros(n - Len(s)) \o s

Bit(x, i) == (x \div (2 ^ i)) % 2

NibbleOr(a, b) ==
    LET w(i) == IF Bit(a, i) = 1 \/ Bit(b, i) = 1 THEN 2 ^ i ELSE 0
    IN  w(0) + w(1) + w(2) + w(3)

\* a | b on BigInts
OrN(a, b) ==
    LET n == IF Len(a) > Len(b) THEN Len(a) ELSE Len(b)
        pa == PadLeft(a, n)
        pb == PadLeft(b, n)
    IN  StripZeros([i \in 1..n |-> NibbleOr(pa[i], pb[i])])

\* a << (4 * k) on BigInts
ShiftLeftNibbles(a, k) == IF a = <<>> THEN <<>> ELSE a \o Zeros(k)

RECURSIVE AddLE(_, _, _)
AddLE(a, b, c) ==
    IF a = <<>> /\ b = <<>> THEN (IF c = 0 THEN <<>> ELSE <<c>>)
    ELSE LET x == IF a = <<>> THEN 0 ELSE Head(a)
             y == IF b = <<>> THEN 0 ELSE Head(b)
             s == x + y + c
         IN  <<s % 16>> \o AddLE(IF a = <<>> THEN <<>> ELSE Tail(a),
                                 IF b = <<>> THEN <<>> ELSE Tail(b),
                                 s \div 16)

AddN(a, b) == StripZeros(Reverse(AddLE(Reverse(a), Reverse(b), 0)))

RECURSIVE SubLE(_, _, _)
SubLE(a, b, c) ==
    IF a = <<>> THEN <<>>
    ELSE LET y == IF b = <<>> THEN 0 ELSE Head(b)
             d == Head(a) - y - c
         IN  <<IF d < 0 THEN d + 16 ELSE d>>
             \o SubLE(Tail(a), IF b = <<>> THEN <<>> ELSE Tail(b),
                      IF d < 0 THEN 1 ELSE 0)

\* a - b for a >= b
SubN(a, b) == StripZeros(Reverse(SubLE(Reverse(a), Reverse(b), 0)))

RECURSIVE LexLess(_, _)
LexLess(a, b) ==
    IF a = <<>> THEN FALSE
    ELSE IF Head(a) # Head(b) THEN Head(a) < Head(b)
    ELSE LexLess(Tail(a), Tail(b))

\* a < b on normalised BigInts
LessN(a, b) ==
    IF Len(a) # Len(b) THEN Len(a) < Len(b) ELSE LexLess(a, b)

LeqN(a, b) == a = b \/ LessN(a, b)

RECURSIVE MulLE(_, _, _)
MulLE(a, k, c) ==
    IF a = <<>> THEN (IF c = 0 THEN <<>> ELSE MulLE(<<0>>, k, c))
    ELSE LET p == Head(a) * k + c
         IN  <<p % 16>> \o MulLE(Tail(a), k, p \div 16)

\* a * k for a small multiplier k
MulSmallN(a, k) == StripZeros(Reverse(MulLE(Reverse(a), k, 0)))

RECURSIVE DivBE(_, _, _)
DivBE(s, k, r) ==
    IF s = <<>> THEN <<>>
    ELSE LET cur == r * 16 + Head(s)
         IN  <<cur \div k>> \o DivBE(Tail(s), k, cur % k)

\* floor(a / k) for a small divisor k
DivSmallN(a, k) == StripZeros(DivBE(a, k, 0))

\* Signed BigInt
Big(neg, mag) == [neg |-> neg /\ mag # <<>>, mag |-> mag]

BigOf(n) == Big(FALSE, NatToNibbles(n))

BigAdd(x, y) ==
    IF x.neg = y.neg THEN Big(x.neg, AddN(x.mag, y.mag))
    ELSE IF LeqN(y.mag, x.mag) THEN Big(x.neg, SubN(x.mag, y.mag))
    ELSE Big(y.neg, SubN(y.mag, x.mag))

BigSub(x, y) == BigAdd(x, Big(~y.neg, y.mag))

BigMul(x, k) == Big(x.neg, MulSmallN(x.mag, k))

\* BigInt division truncates toward zero
BigDiv(x, k) == Big(x.neg, DivSmallN(x.mag, k))

BigLeq(x, y) ==
    IF x.neg /\ ~y.neg THEN TRUE
    ELSE IF ~x.neg /\ y.neg THEN FALSE
    ELSE IF x.neg THEN LeqN(y.mag, x.mag)
    ELSE LeqN(x.mag, y.mag)

(***************************************************************************)
(* JavaScript values and the ethers helpers the services call.             *)
(***************************************************************************)
\* the value of a field the request does not carry
Undefined == <<-1>>

Ok(x) == [ok |-> TRUE, v |-> x]

Throw == [ok |-> FALSE, v |-> <<>>]

\* x || d for a field that is absent or a hex string / BigInt
OrDefault(x, d) == IF x = Undefined THEN d ELSE x

EvenPad(s) == IF Len(s) % 2 = 1 THEN <<0>> \o s ELSE s

\* ethers.toBeHex(value) of a BigInt that is not negative: "0x00" for 0
toBeHexBig(mag) == IF mag = <<>> THEN <<0, 0>> ELSE EvenPad(mag)

\* ethers.toBeHex(value) of a JavaScript number; throws on a negative one
toBeHex(n) == IF n < 0 THEN Throw ELSE Ok(toBeHexBig(NatToNibbles(n)))

\* String.prototype.padStart(n, '0') on the hex digits
padStart(s, n) == PadLeft(s, n)

\* ethers.zeroPadValue(data, length); throws when data is longer
zeroPadValue(hex, length) ==
    IF Len(hex) > 2 * length THEN Throw ELSE Ok(PadLeft(hex, 2 * length))

\* one uintN value of solidityPacked: zeroPadValue(toBeArray(value), N / 8)
PackedUint(mag, bytes) == zeroPadValue(EvenPad(mag), bytes)

\* a JavaScript number passed through BigInt() into a uintN slot
PackedNumber(n, bytes) ==
    IF n < 0 THEN Throw ELSE PackedUint(NatToNibbles(n), bytes)

\* one address value of solidityPacked / of the ABI coder
IsAddress(a) == a # Undefined /\ Len(a) = 40

\* AbiCoder: a uint256 slot; throws on a missing or oversized value
AbiUint256(x) ==
    IF x = Undefined \/ Len(x) > 64 THEN Throw ELSE Ok(PadLeft(x, 64))

\* AbiCoder: an address slot
AbiAddress(a) == IF IsAddress(a) THEN Ok(PadLeft(a, 64)) ELSE Throw

\* ethers.keccak256, taken as collision-free
keccak256(x) == [keccak256 |-> x]

RECURSIVE DecimalDigits(_)
DecimalDigits(n) ==
    IF n < 10 THEN <<n>> ELSE Append(DecimalDigits(n \div 10), n % 10)

\* ethers.concat of hex strings; throws on a string of odd length
concat(parts) ==
    IF \E i \in 1..Len(parts) : Len(parts[i]) % 2 = 1 THEN Throw
    ELSE LET RECURSIVE Cat(_)
             Cat(k) == IF k = 0 THEN <<>> ELSE Cat(k - 1) \o parts[k]
         IN  Ok(Cat(Len(parts)))

(***************************************************************************)
(* Authorization codec of the multi-chain service.                         *)
(***************************************************************************)
VALIDITY_WINDOW_SECONDS == 3600

VALIDITY_BEFORE_SECONDS == 60

DEFAULT_MODE == 1

\* getValidityTimeWindow without the lookback
getValidityTimeWindow_NoLookback(now) ==
    [validUntil |-> now + VALIDITY_WINDOW_SECONDS,
     validAfter |-> now]

\* now is Math.floor(Date.now() / 1000)
getValidityTimeWindow(now) ==
    [validUntil |-> now + VALIDITY_WINDOW_SECONDS,
     validAfter |-> now - VALIDITY_BEFORE_SECONDS]

createPaymasterDataWithoutSignature(paymasterAddress, verificationGasLimit, postOpGasLimit, validUntil, validAfter) ==
    LET vgl  == PackedUint(verificationGasLimit, 16)
        pogl == PackedUint(postOpGasLimit, 16)
        mode == PackedNumber(DEFAULT_MODE, 1)
        vu   == PackedNumber(validUntil, 6)
        va   == PackedNumber(validAfter, 6)
    IN  IF IsAddress(paymasterAddress) /\ vgl.ok /\ pogl.ok /\ mode.ok
           /\ vu.ok /\ va.ok
        THEN Ok(paymasterAddress \o vgl.v \o pogl.v \o mode.v \o vu.v \o va.v)
        ELSE Throw

\* createPaymasterData without the padding of the timestamps to 6 bytes
createPaymasterData_NoPad(validUntil, validAfter, signature) ==
    LET vu == toBeHex(validUntil)
        va == toBeHex(validAfter)
    IN  IF vu.ok /\ va.ok
        THEN concat(<< <<0>> \o DecimalDigits(DEFAULT_MODE), vu.v, va.v,
                       signature >>)
        ELSE Throw

\* createPaymasterData writing the mode into bits 1-7 of the mode byte
createPaymasterData_ModeShifted(validUntil, validAfter, signature) ==
    LET vu == toBeHex(validUntil)
        va == toBeHex(validAfter)
    IN  IF vu.ok /\ va.ok
        THEN concat(<< <<0>> \o DecimalDigits(2 * DEFAULT_MODE),
                       padStart(vu.v, 12), padStart(va.v, 12), signature >>)
        ELSE Throw

createPaymasterData(validUntil, validAfter, signature) ==
    LET vu == toBeHex(validUntil)
        va == toBeHex(validAfter)
    IN  IF vu.ok /\ va.ok
        THEN concat(<< <<0>> \o DecimalDigits(DEFAULT_MODE),
                       padStart(vu.v, 12), padStart(va.v, 12), signature >>)
        ELSE Throw

(***************************************************************************)
(* Operation codec and digest calculator.                                  *)
(***************************************************************************)
\* packUint shifting the high limb by 64 bits only
packUint_Shift64(high128, low128) ==
    LET result == OrN(ShiftLeftNibbles(high128, 16), low128)
    IN  zeroPadValue(toBeHexBig(result), 32)

packUint(high128, low128) ==
    LET result == OrN(ShiftLeftNibbles(high128, 32), low128)
    IN  zeroPadValue(toBeHexBig(result), 32)

\* getUserOpHash leaving the nonce out of the encoding
getUserOpHash_DropNonce(userOp, paymasterAndDataWithOutSignature, chainId) ==
    LET accountGasLimits == packUint(OrDefault(userOp.verificationGasLimit, <<>>),
                                     OrDefault(userOp.callGasLimit, <<>>))
        gasFees == packUint(OrDefault(userOp.maxPriorityFeePerGas, <<>>),
                            OrDefault(userOp.maxFeePerGas, <<>>))
        sender == AbiAddress(userOp.sender)
        nonce == AbiUint256(userOp.nonce)
        pvg == AbiUint256(userOp.preVerificationGas)
        chain == IF chainId < 0 THEN Throw ELSE AbiUint256(NatToNibbles(chainId))
    IN  IF accountGasLimits.ok /\ gasFees.ok /\ sender.ok /\ nonce.ok /\ pvg.ok
           /\ chain.ok
        THEN Ok(keccak256(<< keccak256(<< sender.v, accountGasLimits.v, pvg.v,
                                          gasFees.v,
                                          keccak256(OrDefault(userOp.initCode, <<>>)),
                                          keccak256(OrDefault(userOp.callData, <<>>)),
                                          keccak256(paymasterAndDataWithOutSignature) >>),
                             chain.v >>))
        ELSE Throw

\* getUserOpHash with the limbs of both packed words in the other order
getUserOpHash_SwappedLimbs(userOp, paymasterAndDataWithOutSignature, chainId) ==
    LET accountGasLimits == packUint(OrDefault(userOp.callGasLimit, <<>>),
                                     OrDefault(userOp.verificationGasLimit, <<>>))
        gasFees == packUint(OrDefault(userOp.maxFeePerGas, <<>>),
                            OrDefault(userOp.maxPriorityFeePerGas, <<>>))
        sender == AbiAddress(userOp.sender)
        nonce == AbiUint256(userOp.nonce)
        pvg == AbiUint256(userOp.preVerificationGas)
        chain == IF chainId < 0 THEN Throw ELSE AbiUint256(NatToNibbles(chainId))
    IN  IF accountGasLimits.ok /\ gasFees.ok /\ sender.ok /\ nonce.ok /\ pvg.ok
           /\ chain.ok
        THEN Ok(keccak256(<< keccak256(<< sender.v, nonce.v, accountGasLimits.v,
                                          pvg.v, gasFees.v,
                                          keccak256(OrDefault(userOp.initCode, <<>>)),
                                          keccak256(OrDefault(userOp.callData, <<>>)),
                                          keccak256(paymasterAndDataWithOutSignature) >>),
                             chain.v >>))
        ELSE Throw

\* packed-limb scheme; chainId is a JavaScript number (-1 stands for NaN)
getUserOpHash(userOp, paymasterAndDataWithOutSignature, chainId) ==
    LET verificationGasLimit == OrDefault(userOp.verificationGasLimit, <<>>)
        callGasLimit == OrDefault(userOp.callGasLimit, <<>>)
        accountGasLimits == packUint(verificationGasLimit, callGasLimit)
        maxPriorityFeePerGasBigInt == OrDefault(userOp.maxPriorityFeePerGas, <<>>)
        maxFeePerGasBigInt == OrDefault(userOp.maxFeePerGas, <<>>)
        gasFees == packUint(maxPriorityFeePerGasBigInt, maxFeePerGasBigInt)
        sender == AbiAddress(userOp.sender)
        nonce == AbiUint256(userOp.nonce)
        pvg == AbiUint256(userOp.preVerificationGas)
        chain == IF chainId < 0 THEN Throw ELSE AbiUint256(NatToNibbles(chainId))
    IN  IF accountGasLimits.ok /\ gasFees.ok /\ sender.ok /\ nonce.ok /\ pvg.ok
        THEN LET userOpHash ==
                   keccak256(<< sender.v, nonce.v, accountGasLimits.v, pvg.v,
                                gasFees.v,
                                keccak256(OrDefault(userOp.initCode, <<>>)),
                                keccak256(OrDefault(userOp.callData, <<>>)),
                                keccak256(paymasterAndDataWithOutSignature) >>)
             IN  IF chain.ok THEN Ok(keccak256(<<userOpHash, chain.v>>))
                 ELSE Throw
        ELSE Throw

\* legacy flat scheme of the first draft
packUserOp(userOp) ==
    LET sender == AbiAddress(userOp.sender)
        nonce == AbiUint256(userOp.nonce)
        cgl == AbiUint256(userOp.callGasLimit)
        vgl == AbiUint256(userOp.verificationGasLimit)
        pvg == AbiUint256(userOp.preVerificationGas)
        mf == AbiUint256(userOp.maxFeePerGas)
        mpf == AbiUint256(userOp.maxPriorityFeePerGas)
    IN  IF userOp.initCode # Undefined /\ userOp.callData # Undefined
           /\ userOp.paymasterAndData # Undefined
           /\ sender.ok /\ nonce.ok /\ cgl.ok /\ vgl.ok /\ pvg.ok /\ mf.ok
           /\ mpf.ok
        THEN Ok(<< sender.v, nonce.v, keccak256(userOp.initCode),
                   keccak256(userOp.callData), cgl.v, vgl.v, pvg.v, mf.v, mpf.v,
                   keccak256(userOp.paymasterAndData) >>)
        ELSE Throw

\* networkChainId is what the chain's provider reports
calculateUserOpHash(userOp, entryPoint, networkChainId) ==
    LET packedUserOp == packUserOp(userOp)
        ep == AbiAddress(entryPoint)
    IN  IF packedUserOp.ok /\ ep.ok
        THEN Ok(keccak256(<< keccak256(packedUserOp.v), ep.v,
                             PadLeft(NatToNibbles(networkChainId), 64) >>))
        ELSE Throw

(***************************************************************************)
(* Gas price oracle.                                                       *)
(***************************************************************************)
\* a fee the provider does not report (null)
Null == [neg |-> FALSE, mag |-> Undefined]

\* x || d on a BigInt or null: null and 0n are falsy
BigOrDefault(x, d) == IF x = Null \/ x.mag = <<>> THEN d ELSE x

\* BigInt(1500000000)
DEFAULT_PRIORITY_FEE == BigOf(1500000000)

\* BigInt(30000000000)
DEFAULT_BASE_FEE == BigMul(BigOf(300000000), 100)

\* `0x${x.toString(16)}`: the sign and the hex digits ("0" for 0)
HexString(x) == [neg |-> x.neg, hex |-> IF x.mag = <<>> THEN <<0>> ELSE x.mag]

Tier(baseFee, priorityFee) ==
    [maxFeePerGas |-> HexString(BigDiv(BigMul(BigAdd(baseFee, priorityFee), 3), 2)),
     maxPriorityFeePerGas |-> HexString(priorityFee)]

\* the result object, given what provider.getFeeData() returned
getUserOperationGasPrice(feeData) ==
    LET maxPriorityFeePerGas ==
            BigDiv(BigMul(BigOrDefault(feeData.maxPriorityFeePerGas,
                                       DEFAULT_PRIORITY_FEE), 3), 2)
        slowMaxPriorityFee == BigDiv(BigMul(maxPriorityFeePerGas, 80), 100)
        standardMaxPriorityFee == maxPriorityFeePerGas
        fastMaxPriorityFee == BigDiv(BigMul(maxPriorityFeePerGas, 120), 100)
        baseFee == IF feeData.gasPrice = Null \/ feeData.gasPrice.mag = <<>>
                   THEN DEFAULT_BASE_FEE
                   ELSE BigSub(feeData.gasPrice, maxPriorityFeePerGas)
    IN  [fast |-> Tier(baseFee, fastMaxPriorityFee),
         slow |-> Tier(baseFee, slowMaxPriorityFee),
         standard |-> Tier(baseFee, standardMaxPriorityFee)]

\* provider.getFeeData() on a chain whose pending block has base fee b and
\* whose node suggests tip p: eth_gasPrice is b + p, eth_maxPriorityFeePerGas p
getFeeData(chainFees) ==
    [gasPrice |-> IF chainFees.baseFee = Null THEN Null
                  ELSE BigAdd(chainFees.baseFee,
                              BigOrDefault(chainFees.priorityFee, BigOf(0))),
     maxPriorityFeePerGas |-> chainFees.priorityFee]

VARIABLES now, chainRuntimes, reqs, calc

vars == <<now, chainRuntimes, reqs, calc>>

(***************************************************************************)
(* SpecGas: the oracle applied to the fee data of a chain.                 *)
(***************************************************************************)
Gwei(n) == BigMul(BigOf(1000000000), n)

BaseFees == {BigOf(0), BigOf(1), BigOf(7), BigOf(10), BigOf(33), BigOf(100),
             BigOf(1001), Gwei(1), Gwei(30), Gwei(100), Null}

PriorityFees == {BigOf(0), BigOf(1), BigOf(2), BigOf(3), BigOf(5), BigOf(101),
                 Gwei(1), Gwei(2), Gwei(40), Null}

InitGas ==
    /\ now = 0
    /\ chainRuntimes = <<>>
    /\ reqs = <<>>
    /\ calc \in [phase : {"in"}, baseFee : BaseFees, priorityFee : PriorityFees]

QuoteGasPrice ==
    /\ calc.phase = "in"
    /\ calc' = [phase |-> "out", baseFee |-> calc.baseFee,
                priorityFee |-> calc.priorityFee,
                feeData |-> getFeeData(calc),
                result |-> getUserOperationGasPrice(getFeeData(calc))]
    /\ UNCHANGED <<now, chainRuntimes, reqs>>

NextGas == QuoteGasPrice

SpecGas == InitGas /\ [][NextGas]_vars

(***************************************************************************)
(* Inputs shared by the specifications.                                    *)
(***************************************************************************)
Address(n) == PadLeft(NatToNibbles(n), 40)

N(n) == NatToNibbles(n)

\* 0x0000000071727De22E5E9d8BAf0edAc6f37da032
EntryPointV07 ==
    <<0, 0, 0, 0, 0, 0, 0, 0, 7, 1, 7, 2, 7, 13, 14, 2, 2, 14, 5, 14,
      9, 13, 8, 11, 10, 15, 0, 14, 13, 10, 12, 6, 15, 3, 7, 13, 10, 0, 3, 2>>

\* 2^128 - 1
Max128 == [i \in 1..32 |-> 15]

\* 2^128 + n
Over128(n) == <<1>> \o PadLeft(NatToNibbles(n), 32)

\* UserOperation of types/userOperation.ts; an absent field is Undefined
BaseOp ==
    [sender |-> Address(1), nonce |-> N(1), initCode |-> <<>>,
     callData |-> <<1, 2, 3, 4>>, callGasLimit |-> N(5),
     verificationGasLimit |-> N(1), preVerificationGas |-> N(7),
     maxFeePerGas |-> N(9), maxPriorityFeePerGas |-> N(3),
     paymasterAndData |-> <<>>, signature |-> <<15, 15>>,
     paymasterVerificationGasLimit |-> N(40000),
     paymasterPostOpGasLimit |-> N(50000)]

DeployOp ==
    [BaseOp EXCEPT !.sender = Address(2), !.nonce = <<>>,
                   !.initCode = <<10, 11>>, !.callData = <<>>,
                   !.callGasLimit = <<>>, !.verificationGasLimit = <<>>,
                   !.preVerificationGas = <<>>, !.maxFeePerGas = <<>>,
                   !.maxPriorityFeePerGas = <<>>,
                   !.paymasterAndData = <<12, 13>>, !.signature = <<>>]

(***************************************************************************)
(* SpecHash: the digest calculators and packUint applied to pairs of       *)
(* inputs that differ in at most one coordinate.                           *)
(***************************************************************************)
OpFields == {"sender", "nonce", "initCode", "callData", "callGasLimit",
             "verificationGasLimit", "preVerificationGas", "maxFeePerGas",
             "maxPriorityFeePerGas", "paymasterAndData", "signature"}

FieldAlternatives(f) ==
    CASE f = "sender" -> {Address(1), Address(2)}
      [] f = "nonce" -> {N(0), N(1), N(2), Undefined}
      [] f = "initCode" -> {<<>>, <<10, 11>>, Undefined}
      [] f = "callData" -> {<<>>, <<1, 2, 3, 4>>, Undefined}
      [] f = "callGasLimit" -> {N(0), N(5), Max128, Over128(5), Undefined}
      [] f = "verificationGasLimit" -> {N(0), N(1), Max128, Over128(0), Undefined}
      [] f = "preVerificationGas" -> {N(0), N(7), Undefined}
      [] f = "maxFeePerGas" -> {N(0), N(9), Over128(9), Undefined}
      [] f = "maxPriorityFeePerGas" -> {N(0), N(3), Undefined}
      [] f = "paymasterAndData" -> {<<>>, <<12, 13>>}
      [] f = "signature" -> {<<>>, <<15, 15>>}

Preimages == {<<0, 1>>, <<0, 2>>}

EntryPoints == {EntryPointV07, Address(85)}

HashChainIds == {1, 137}

HashSlot(op, pre, ep, chain) ==
    [userOp |-> op, preimage |-> pre, entryPoint |-> ep, chainId |-> chain,
     done |-> FALSE, digest |-> Throw]

HashContexts == Preimages \X EntryPoints \X HashChainIds

\* two inputs with the same context whose operations differ in at most a field
OpPairs ==
    UNION { { <<HashSlot([base EXCEPT ![f] = v1], c[1], c[2], c[3]),
                HashSlot([base EXCEPT ![f] = v2], c[1], c[2], c[3])>> :
                  v1 \in FieldAlternatives(f), v2 \in FieldAlternatives(f),
                  base \in {BaseOp, DeployOp},
                  c \in {<<<<0, 1>>, EntryPointV07, 1>>} } : f \in OpFields }

\* two inputs with the same operation whose contexts differ in at most a part
ContextPairs ==
    UNION { { <<HashSlot(BaseOp, c[1], c[2], c[3]),
                HashSlot(BaseOp, d[1], d[2], d[3])>> :
                  d \in { e \in HashContexts :
                            Cardinality({i \in 1..3 : e[i] # c[i]}) <= 1 } } :
            c \in HashContexts }

Samples128 == {N(0), N(1), N(5), N(255), <<1>> \o Zeros(16), <<8>> \o Zeros(31),
               Max128, Over128(0), Over128(5)}

InitHash ==
    /\ now = 0
    /\ chainRuntimes = <<>>
    /\ reqs = <<>>
    /\ \/ \E fn \in {"packed", "legacy"}, pr \in OpPairs \union ContextPairs :
            calc = [fn |-> fn, a |-> pr[1], b |-> pr[2]]
       \/ \E h \in Samples128, l \in Samples128 :
            calc = [fn |-> "packUint", high |-> h, low |-> l, done |-> FALSE,
                    word |-> Throw]

\* provider.getNetwork() of the provider configured for chainId
getNetwork(chainId) == [chainId |-> chainId]

\* the digest as getPaymasterData / getPaymasterStubData ask for it
HashPacked(s) ==
    /\ calc.fn = "packed"
    /\ ~calc[s].done
    /\ calc' = [calc EXCEPT ![s].done = TRUE,
                  ![s].digest = getUserOpHash(calc[s].userOp, calc[s].preimage,
                                              calc[s].chainId)]
    /\ UNCHANGED <<now, chainRuntimes, reqs>>

\* the digest as generatePaymasterAndData asks for it
HashLegacy(s) ==
    /\ calc.fn = "legacy"
    /\ ~calc[s].done
    /\ calc' = [calc EXCEPT ![s].done = TRUE,
                  ![s].digest =
                      calculateUserOpHash(
                          [calc[s].userOp EXCEPT
                              !.paymasterAndData = calc[s].preimage],
                          calc[s].entryPoint,
                          getNetwork(calc[s].chainId).chainId)]
    /\ UNCHANGED <<now, chainRuntimes, reqs>>

PackLimbs ==
    /\ calc.fn = "packUint"
    /\ ~calc.done
    /\ calc' = [calc EXCEPT !.done = TRUE,
                            !.word = packUint(calc.high, calc.low)]
    /\ UNCHANGED <<now, chainRuntimes, reqs>>

NextHash ==
    \/ \E s \in {"a", "b"} : HashPacked(s)
    \/ \E s \in {"a", "b"} : HashLegacy(s)
    \/ PackLimbs

SpecHash == InitHash /\ [][NextHash]_vars

(***************************************************************************)
(* SpecCodec: createPaymasterData applied to the validity windows the      *)
(* service generates and to signatures of several lengths.                 *)
(***************************************************************************)
\* readings of Math.floor(Date.now() / 1000)
ClockReadings == {0, 59, 60, 61, 3600, 1000000000, 1762254000, 2147480000}

\* a hex string of n bytes
SampleBytes(n, k) == [i \in 1..(2 * n) |-> (i * k + n) % 16]

Signatures == {<<>>, SampleBytes(1, 3), SampleBytes(64, 5), SampleBytes(65, 1),
               SampleBytes(65, 7), SampleBytes(65, 11), SampleBytes(66, 13)}

InitCodec ==
    /\ now \in ClockReadings
    /\ chainRuntimes = <<>>
    /\ reqs = <<>>
    /\ \E sig \in Signatures :
         calc = [signature |-> sig, done |-> FALSE, validUntil |-> 0,
                 validAfter |-> 0, paymasterData |-> Throw]

BuildPaymasterData ==
    /\ ~calc.done
    /\ LET w == getValidityTimeWindow(now)
       IN  calc' = [calc EXCEPT
                      !.done = TRUE,
                      !.validUntil = w.validUntil,
                      !.validAfter = w.validAfter,
                      !.paymasterData =
                          createPaymasterData(w.validUntil, w.validAfter,
                                              calc.signature)]
    /\ UNCHANGED <<now, chainRuntimes, reqs>>

NextCodec == BuildPaymasterData

SpecCodec == InitCodec /\ [][NextCodec]_vars

\* C5: a blob built for a validity window of the service is 1 + 6 + 6 +
\* len(signature) bytes: the mode byte, validUntil and validAfter as 6-byte
\* big-endian integers, then the signature, with nothing in between.
C5_BlobLayout ==
    (calc.done /\ calc.paymasterData.ok)
    => LET blob == calc.paymasterData.v
       IN  /\ Len(blob) = 2 * (1 + 6 + 6) + Len(calc.signature)
           /\ StripZeros(SubSeq(blob, 3, 14)) = NatToNibbles(calc.validUntil)
           /\ StripZeros(SubSeq(blob, 15, 26)) = NatToNibbles(calc.validAfter)
           /\ SubSeq(blob, 27, Len(blob)) = calc.signature

C5_Witness ==
    /\ calc.done /\ calc.paymasterData.ok
    /\ Len(calc.signature) = 130
    /\ calc.validUntil = 1762254000 + 3600

(***************************************************************************)
(* Properties of the digest calculators and of packUint (SpecHash).        *)
(***************************************************************************)
HashPairDone ==
    /\ calc.fn \in {"packed", "legacy"}
    /\ calc.a.done /\ calc.b.done
    /\ calc.a.digest.ok /\ calc.b.digest.ok

SameContext ==
    /\ calc.a.preimage = calc.b.preimage
    /\ calc.a.entryPoint = calc.b.entryPoint
    /\ calc.a.chainId = calc.b.chainId

\* C2: the signed digest binds the entry point and the chain id: with the
\* user operation and the preimage fixed, two entry points give two digests
\* and two chain ids give two digests.
C2_DigestBindsEntryPointAndChain ==
    (HashPairDone /\ calc.a.userOp = calc.b.userOp
                  /\ calc.a.preimage = calc.b.preimage)
    => /\ (calc.a.chainId = calc.b.chainId
           /\ calc.a.entryPoint # calc.b.entryPoint)
          => calc.a.digest.v # calc.b.digest.v
       /\ (calc.a.entryPoint = calc.b.entryPoint
           /\ calc.a.chainId # calc.b.chainId)
          => calc.a.digest.v # calc.b.digest.v

\* the upper and the lower 128 bits of a 32-byte word, as BigInts
Upper128(word) == StripZeros(SubSeq(word, 1, 32))

Lower128(word) == StripZeros(SubSeq(word, 33, 64))

Fits128(x) == Len(OrDefault(x, <<>>)) <= 32

\* C7: for high and low below 2^128 the word packUint(high, low) is 32 bytes
\* whose upper half is high and whose lower half is low; the accountGasLimits
\* slot of the packed digest gives back verificationGasLimit and callGasLimit.
C7_PackUintRoundTrip ==
    /\ (calc.fn = "packUint" /\ calc.done
        /\ Fits128(calc.high) /\ Fits128(calc.low))
       => /\ calc.word.ok
          /\ Len(calc.word.v) = 64
          /\ Upper128(calc.word.v) = calc.high
          /\ Lower128(calc.word.v) = calc.low
    /\ \A s \in {"a", "b"} :
         (calc.fn = "packed" /\ calc[s].done /\ calc[s].digest.ok
          /\ Fits128(calc[s].userOp.verificationGasLimit)
          /\ Fits128(calc[s].userOp.callGasLimit))
         => LET accountGasLimits == calc[s].digest.v.keccak256[1].keccak256[3]
            IN  /\ Upper128(accountGasLimits)
                     = OrDefault(calc[s].userOp.verificationGasLimit, <<>>)
                /\ Lower128(accountGasLimits)
                     = OrDefault(calc[s].userOp.callGasLimit, <<>>)

C7_Witness ==
    /\ calc.fn = "packUint" /\ calc.done /\ calc.word.ok
    /\ calc.high = Max128 /\ calc.low = <<8>> \o Zeros(31)

\* C8 as claimed: operations that differ in exactly one of the eleven fields,
\* hashed in the same context, have different digests.
C8_AnyFieldChangesDigest ==
    (HashPairDone /\ calc.fn = "packed" /\ SameContext
     /\ Cardinality({f \in OpFields : calc.a.userOp[f] # calc.b.userOp[f]}) = 1)
    => calc.a.digest.v # calc.b.digest.v

HashedFields == OpFields \ {"paymasterAndData", "signature"}

LimbFields == {"callGasLimit", "verificationGasLimit", "maxFeePerGas",
               "maxPriorityFeePerGas"}

\* the value of a field as getUserOpHash reads it
Effective(op, f) ==
    IF f \in LimbFields \union {"initCode", "callData"}
    THEN OrDefault(op[f], <<>>) ELSE op[f]

\* C8 amended: operations that differ in the value of exactly one of the
\* nine hashed fields (an absent gas limit, fee, initCode or callData read
\* as 0 or empty; gas limits and fees below 2^128), hashed in the same
\* context, have different digests.
C8_HashedFieldChangesDigest ==
    LET differing == {f \in HashedFields :
                        Effective(calc.a.userOp, f) # Effective(calc.b.userOp, f)}
        unhashedSame == \A g \in OpFields \ HashedFields :
                           calc.a.userOp[g] = calc.b.userOp[g]
        limbsFit == \A g \in LimbFields :
                       Fits128(calc.a.userOp[g]) /\ Fits128(calc.b.userOp[g])
    IN  (HashPairDone /\ calc.fn = "packed" /\ SameContext /\ unhashedSame
         /\ Cardinality(differing) = 1 /\ limbsFit)
        => calc.a.digest.v # calc.b.digest.v

C8_Witness ==
    /\ HashPairDone /\ calc.fn = "packed" /\ SameContext
    /\ calc.a.userOp.callGasLimit = N(5)
    /\ calc.b.userOp.callGasLimit = Max128
    /\ calc.a.digest.v # calc.b.digest.v

(***************************************************************************)
(* Properties of the gas price oracle (SpecGas).                           *)
(***************************************************************************)
ParseHex(h) == Big(h.neg, StripZeros(h.hex))

\* C10: with base fee b and priority fee p reported for the chain, the
\* standard priority is floor(3p/2), slow floor(80 standard / 100), fast
\* floor(120 standard / 100), and each tier's maxFeePerGas is
\* floor(3 (b + tier priority) / 2).
C10_TiersFromBaseAndPriority ==
    (calc.phase = "out" /\ calc.baseFee # Null /\ calc.priorityFee # Null)
    => LET standard == BigDiv(BigMul(calc.priorityFee, 3), 2)
           slow == BigDiv(BigMul(standard, 80), 100)
           fast == BigDiv(BigMul(standard, 120), 100)
           maxFee(t) == BigDiv(BigMul(BigAdd(calc.baseFee, t), 3), 2)
           r == calc.result
       IN  /\ ParseHex(r.standard.maxPriorityFeePerGas) = standard
           /\ ParseHex(r.slow.maxPriorityFeePerGas) = slow
           /\ ParseHex(r.fast.maxPriorityFeePerGas) = fast
           /\ ParseHex(r.standard.maxFeePerGas) = maxFee(standard)
           /\ ParseHex(r.slow.maxFeePerGas) = maxFee(slow)
           /\ ParseHex(r.fast.maxFeePerGas) = maxFee(fast)

(***************************************************************************)
(* The multi-chain service behind POST /:chainId, and the first draft's    *)
(* POST /paymasterAndData.                                                 *)
(***************************************************************************)
\* a path segment or a string of digits: character codes, 0..9 the digits
Chain1 == <<1>>

Chain137 == <<1, 3, 7>>

Chain5 == <<5>>

\* "constructor", its letters numbered from a = 10
Constructor == <<12, 24, 23, 28, 29, 27, 30, 12, 29, 24, 27>>

\* property names a plain object answers without having them as own keys
\* (Object.prototype holds more of them; one stands for all)
InheritedKeys == {Constructor}

\* the truth value of obj[key] for a plain object whose own values are objects
Truthy(obj, key) == key \in DOMAIN obj \/ key \in InheritedKeys

\* what destructuring {provider, paymasterContract, signer} = obj[key] gives
\* when obj[key] is truthy: the fields are undefined on an inherited value
Runtime(obj, key) ==
    IF key \in DOMAIN obj THEN obj[key]
    ELSE [provider |-> Undefined,
          paymasterContract |-> [target |-> Undefined],
          signer |-> Undefined]

\* config of config/index.js: the chains the deployment is configured for
config ==
    [paymasterPrivateKey |-> N(9),
     rpcUrl |-> 11155111,
     paymasterAddress |-> Address(164),
     chains |-> [c \in {Chain1, Chain137} |->
                   [rpc |-> c,
                    paymasterAddress |->
                        IF c = Chain1 THEN Address(161) ELSE Address(162),
                    paymasterPrivateKey |->
                        IF c = Chain1 THEN Undefined ELSE N(7)]]]

\* new ethers.JsonRpcProvider(url): an object, whatever url is
JsonRpcProvider(url) == <<0>> \o url

\* the registry the constructor of the multi-chain service builds
constructor(cfg) ==
    [c \in DOMAIN cfg.chains |->
       [provider |-> JsonRpcProvider(cfg.chains[c].rpc),
        paymasterContract |-> [target |-> cfg.chains[c].paymasterAddress],
        signer |-> OrDefault(cfg.chains[c].paymasterPrivateKey,
                             cfg.paymasterPrivateKey)]]

\* paymasterConfig of the first draft, with every variable of the
\* environment set
paymasterConfig ==
    [privateKey |-> N(11),
     contractAddress |-> Address(163),
     entryPoints |-> [e \in {EntryPointV07} |-> "Ethereum EntryPoint v0.7"],
     supportedChains |-> {1, 5, 137, 80001},
     rpcUrls |-> [c \in {1, 5, 137, 80001} |-> <<c>>]]

\* the wallets initializeProviders builds; it throws on the first supported
\* chain whose RPC URL is '' or missing
initializeProviders(cfg) ==
    IF \E c \in cfg.supportedChains : cfg.rpcUrls[c] \in {<<>>, Undefined}
    THEN Throw
    ELSE Ok([c \in cfg.supportedChains |-> cfg.privateKey])

isChainSupported(chainId) == chainId \in paymasterConfig.supportedChains

RECURSIVE DecimalValue(_)
DecimalValue(s) ==
    IF s = <<>> THEN 0
    ELSE 10 * DecimalValue(SubSeq(s, 1, Len(s) - 1)) + s[Len(s)]

\* Number(chainId) of a path segment; -1 stands for NaN
Number(s) ==
    IF \E i \in 1..Len(s) : s[i] > 9 THEN -1 ELSE DecimalValue(s)

\* Wallet.signMessage: 65 bytes that the key and the message determine; here
\* r carries the key, s the sender, nonce, chain and tail of the paymaster
\* data that the message hashes, and v is 0x1b. The message of the
\* single-chain stub handler hashes five words, the digest of the operation
\* first and the validity window last: there s ends in the window
signMessage(key, message) ==
    LET words == message.keccak256
        outer == IF Len(words) = 5 THEN words[1].keccak256 ELSE words
        inner == outer[1].keccak256
        last == inner[Len(inner)].keccak256
        Low(x, n) == SubSeq(PadLeft(x, n), Len(PadLeft(x, n)) - n + 1,
                            Len(PadLeft(x, n)))
        tail == IF Len(words) = 5
                THEN Low(words[4], 16) \o Low(words[5], 16)
                ELSE Low(last, 32)
    IN  PadLeft(key, 64) \o Low(inner[1], 16) \o Low(inner[2], 8)
        \o Low(outer[Len(outer)], 8) \o tail \o <<1, 11>>

NoId == -1

NoResult == <<>>

NoResponse ==
    [kind |-> "none", status |-> 0, id |-> NoId, code |-> 0, message |-> "",
     result |-> NoResult]

\* reply.code(400).send({jsonrpc, error: {code: -32603, message}, id})
ErrorEnvelope(id, message) ==
    [kind |-> "error", status |-> 400, id |-> id, code |-> -32603,
     message |-> message, result |-> NoResult]

\* {id, result, jsonrpc}
ResultEnvelope(id, result) ==
    [kind |-> "result", status |-> 200, id |-> id, code |-> 0, message |-> "",
     result |-> result]

\* an Error that leaves the route handler: no envelope is built
Uncaught(message) ==
    [kind |-> "uncaught", status |-> 500, id |-> NoId, code |-> 0,
     message |-> message, result |-> NoResult]

\* reply.code(status).send({error, ...}) of the first draft's routes
PlainError(status, message) ==
    [kind |-> "plainError", status |-> status, id |-> NoId, code |-> 0,
     message |-> message, result |-> NoResult]

\* {paymasterAndData}
PlainResult(result) ==
    [kind |-> "plain", status |-> 200, id |-> NoId, code |-> 0, message |-> "",
     result |-> result]

NoParams ==
    [len |-> 0, userOp |-> Undefined, entryPoint |-> Undefined,
     chainId |-> Undefined, context |-> Undefined]

\* a request slot: the request, the locals of its handler and its response
IdleRequest ==
    [pc |-> "idle", route |-> "", id |-> NoId, method |-> "", chainId |-> <<>>,
     chainNum |-> 0, params |-> NoParams, t |-> -1, validUntil |-> -1,
     validAfter |-> -1, preimage |-> Throw, userOpHash |-> Throw,
     hashCalls |-> 0, signCalls |-> 0, signer |-> Undefined,
     dataToSign |-> Throw, signature |-> Throw, feeCalls |-> 0,
     feeData |-> Throw,
     response |-> NoResponse]

Respond(q, response) == [q EXCEPT !.pc = "done", !.response = response]

\* the lines both pm_ handlers share after the checks of their inputs, up to
\* `await signer.signMessage`
SignUserOp(q, rt, clock, verificationGasLimit, postOpGasLimit, failure) ==
    LET userOp == q.params.userOp
        w == getValidityTimeWindow(clock)
        target == Runtime(rt, q.chainId).paymasterContract.target
        pre == IF target = Undefined THEN Throw
               ELSE createPaymasterDataWithoutSignature(
                   target,
                   verificationGasLimit, postOpGasLimit,
                   w.validUntil, w.validAfter)
        q1 == [q EXCEPT !.t = clock, !.validUntil = w.validUntil,
                        !.validAfter = w.validAfter, !.preimage = pre]
        hash == getUserOpHash(userOp, pre.v, Number(q.chainId))
        q2 == [q1 EXCEPT !.userOpHash = hash, !.hashCalls = @ + 1]
    IN  IF ~pre.ok THEN Respond(q1, Uncaught(failure))
        ELSE IF ~hash.ok THEN Respond(q2, Uncaught(failure))
        ELSE [q2 EXCEPT !.pc = "awaitSign", !.signCalls = @ + 1,
                        !.signer = Runtime(rt, q.chainId).signer]

\* getPaymasterStubData up to `await signer.signMessage`
getPaymasterStubData(q, rt, clock) ==
    LET failure == "Failed to generate paymaster stub data"
        userOp == q.params.userOp
    IN  IF q.params.len < 4 THEN Respond(q, Uncaught(failure))
        ELSE IF ~Truthy(rt, q.chainId) THEN Respond(q, Uncaught(failure))
        ELSE SignUserOp(q, rt, clock,
                        OrDefault(userOp.paymasterVerificationGasLimit, <<>>),
                        OrDefault(userOp.paymasterPostOpGasLimit, <<>>),
                        failure)

\* getPaymasterData reading a missing paymaster gas limit as 0, as the stub
\* handler does
getPaymasterData_DefaultLimits(q, rt, clock) ==
    LET failure == "Failed to generate paymaster data"
        userOp == q.params.userOp
    IN  IF q.params.len < 4 THEN Respond(q, Uncaught(failure))
        ELSE IF ~Truthy(rt, q.chainId) THEN Respond(q, Uncaught(failure))
        ELSE SignUserOp(q, rt, clock,
                        OrDefault(userOp.paymasterVerificationGasLimit, <<>>),
                        OrDefault(userOp.paymasterPostOpGasLimit, <<>>),
                        failure)

\* getPaymasterData up to `await signer.signMessage`
getPaymasterData(q, rt, clock) ==
    LET failure == "Failed to generate paymaster data"
        userOp == q.params.userOp
    IN  IF q.params.len < 4 THEN Respond(q, Uncaught(failure))
        ELSE IF ~Truthy(rt, q.chainId) THEN Respond(q, Uncaught(failure))
        ELSE IF userOp.paymasterVerificationGasLimit = Undefined
                \/ userOp.paymasterPostOpGasLimit = Undefined
        THEN Respond([q EXCEPT !.t = clock], Uncaught(failure))
        ELSE SignUserOp(q, rt, clock, userOp.paymasterVerificationGasLimit,
                        userOp.paymasterPostOpGasLimit, failure)

\* getUserOperationGasPrice up to `await provider.getFeeData()`
GasPriceStart(q, rt) ==
    IF ~Truthy(rt, q.chainId) \/ Runtime(rt, q.chainId).provider = Undefined
    THEN Respond(q, Uncaught("Failed to get gas price"))
    ELSE [q EXCEPT !.pc = "awaitFeeData", !.feeCalls = @ + 1]

\* calculateGasLimits without the two Math.min caps
calculateGasLimits_NoCap(userOp) ==
    LET callDataChars == Len(userOp.callData)
        base == 40000 + callDataChars * 8
        verificationGas ==
            IF userOp.initCode # Undefined /\ userOp.initCode # <<>>
            THEN base + 40000 ELSE base
        postOpGas == 15000 + callDataChars * 4
    IN  [verificationGas |-> verificationGas,
         postOpGas |-> IF postOpGas >= 40000 THEN postOpGas ELSE 40000]

\* calculateGasLimits of getPaymasterStubData; callData.length counts the
\* characters of the hex string, two for each byte and two for "0x"
calculateGasLimits(userOp) ==
    LET callDataChars == Len(userOp.callData)
        base == 40000 + callDataChars * 8
        verificationGas ==
            IF userOp.initCode # Undefined /\ userOp.initCode # <<>>
            THEN base + 40000 ELSE base
        postOpGas == 15000 + callDataChars * 4
        Max(a, b) == IF a >= b THEN a ELSE b
        Min(a, b) == IF a <= b THEN a ELSE b
    IN  [verificationGas |-> Min(verificationGas, 150000),
         postOpGas |-> Min(Max(postOpGas, 40000), 50000)]

\* getPaymasterStubData from the signature on, with a validity window taken
\* anew, a second after the one that was signed
StubDataResult_WindowReadAgain(q, rt, signature) ==
    LET userOp == q.params.userOp
        gasLimits == calculateGasLimits(userOp)
        paymasterData == createPaymasterData(q.validUntil + 1,
                                             q.validAfter + 1, signature)
        q1 == [q EXCEPT !.signature = Ok(signature)]
    IN  Respond(q1, ResultEnvelope(q.id,
            [paymaster |-> Runtime(rt, q.chainId).paymasterContract.target,
             paymasterData |-> paymasterData.v,
             paymasterPostOpGasLimit |-> NatToNibbles(gasLimits.postOpGas),
             paymasterVerificationGasLimit |->
                 NatToNibbles(gasLimits.verificationGas)]))

\* getPaymasterStubData from the signature on
StubDataResult(q, rt, signature) ==
    LET failure == "Failed to generate paymaster stub data"
        userOp == q.params.userOp
        gasLimits == calculateGasLimits(userOp)
        paymasterData == createPaymasterData(q.validUntil, q.validAfter,
                                             signature)
        q1 == [q EXCEPT !.signature = Ok(signature)]
    IN  IF userOp.callData = Undefined \/ ~paymasterData.ok
        THEN Respond(q1, Uncaught(failure))
        ELSE Respond(q1, ResultEnvelope(q.id,
                 [paymaster |-> Runtime(rt, q.chainId).paymasterContract.target,
                  paymasterData |-> paymasterData.v,
                  paymasterPostOpGasLimit |-> NatToNibbles(gasLimits.postOpGas),
                  paymasterVerificationGasLimit |->
                      NatToNibbles(gasLimits.verificationGas)]))

\* getPaymasterData from the signature on
PaymasterDataResult(q, rt, signature) ==
    LET paymasterData == createPaymasterData(q.validUntil, q.validAfter,
                                             signature)
        q1 == [q EXCEPT !.signature = Ok(signature)]
    IN  IF ~paymasterData.ok
        THEN Respond(q1, Uncaught("Failed to generate paymaster data"))
        ELSE Respond(q1, ResultEnvelope(q.id,
                 [paymaster |-> Runtime(rt, q.chainId).paymasterContract.target,
                  paymasterData |-> paymasterData.v]))

\* the POST /:chainId handler, up to the first await of the method it routes to
paymaster(q, rt, clock) ==
    IF q.chainId = <<>> \/ ~Truthy(config.chains, q.chainId)
    THEN Respond(q, ErrorEnvelope(q.id, "Invalid chainId"))
    ELSE CASE q.method = "pimlico_getUserOperationGasPrice" ->
                  GasPriceStart(q, rt)
           [] q.method = "pm_getPaymasterStubData" ->
                  getPaymasterStubData(q, rt, clock)
           [] q.method = "pm_getPaymasterData" ->
                  getPaymasterData(q, rt, clock)
           [] OTHER -> Respond(q, ErrorEnvelope(q.id, "Invalid method"))

\* ethers.concat([contractAddress, AbiCoder.encode(['uint48', 'uint48',
\* 'bytes'], [validUntil, validAfter, signature])])
encodePaymasterAndData(contractAddress, validUntil, validAfter, signature) ==
    LET Word(n) == PadLeft(NatToNibbles(n), 64)
        bytes == Len(signature) \div 2
        padding == Zeros(2 * ((32 - (bytes % 32)) % 32))
    IN  IF validUntil < 0 \/ validAfter < 0 \/ Len(signature) % 2 = 1
           \/ Len(contractAddress) % 2 = 1
        THEN Throw
        ELSE Ok(contractAddress \o Word(validUntil) \o Word(validAfter)
                \o Word(96) \o Word(bytes) \o signature \o padding)

\* POST /paymasterAndData and generatePaymasterAndData up to
\* `await provider.getNetwork()`
generatePaymasterAndData(q, wallets, clock) ==
    LET validUntil == clock + 3600
        validAfter == 0
        tempPaymasterAndData ==
            encodePaymasterAndData(paymasterConfig.contractAddress,
                                   validUntil, validAfter, <<>>)
        failure == PlainError(500, "Failed to generate paymasterAndData")
    IN  IF q.params.len < 1 \/ q.params.entryPoint = Undefined
           \/ q.params.entryPoint = <<>> \/ q.chainNum = 0
        THEN Respond(q, PlainError(400, "Missing required parameters"))
        ELSE IF ~isChainSupported(q.chainNum)
        THEN Respond(q, PlainError(400, "Chain ID is not supported"))
        ELSE IF q.chainNum \notin DOMAIN wallets THEN Respond(q, failure)
        ELSE IF ~Truthy(paymasterConfig.entryPoints, q.params.entryPoint)
        THEN Respond(q, failure)
        ELSE IF ~tempPaymasterAndData.ok
        THEN Respond([q EXCEPT !.t = clock], failure)
        ELSE [q EXCEPT !.pc = "awaitNetwork", !.t = clock,
                       !.validUntil = validUntil, !.validAfter = validAfter,
                       !.preimage = tempPaymasterAndData]

\* generatePaymasterAndData from the chain id of the provider on, up to
\* `await wallet.signMessage`
HashForWallet(q, wallets, networkChainId) ==
    LET tempUserOp == [q.params.userOp EXCEPT
                          !.paymasterAndData = q.preimage.v]
        hash == calculateUserOpHash(tempUserOp, q.params.entryPoint,
                                    networkChainId)
        q1 == [q EXCEPT !.userOpHash = hash, !.hashCalls = @ + 1]
    IN  IF ~hash.ok
        THEN Respond(q1, PlainError(500, "Failed to generate paymasterAndData"))
        ELSE [q1 EXCEPT !.pc = "awaitSign", !.signCalls = @ + 1,
                        !.signer = wallets[q.chainNum]]

\* generatePaymasterAndData from the signature on
PaymasterAndDataResult(q, signature) ==
    LET blob == encodePaymasterAndData(paymasterConfig.contractAddress,
                                       q.validUntil, q.validAfter, signature)
        q1 == [q EXCEPT !.signature = Ok(signature)]
    IN  IF ~blob.ok
        THEN Respond(q1, PlainError(500, "Failed to generate paymasterAndData"))
        ELSE Respond(q1, PlainResult([paymasterAndData |-> blob.v]))

(***************************************************************************)
(* The single-chain service behind POST /.                                 *)
(***************************************************************************)
\* ethers.ZeroAddress
ZeroAddress == Zeros(40)

\* the address literal getPaymasterData packs into the preimage:
\* 0xDE31CDdee69441D6F1D35E3486DA444bbA43573e
PreimagePaymaster ==
    <<13, 14, 3, 1, 12, 13, 13, 14, 14, 6, 9, 4, 4, 1, 13, 6, 15, 1, 13, 3,
      5, 14, 3, 4, 8, 6, 13, 10, 4, 4, 4, 11, 11, 10, 4, 3, 5, 7, 3, 14>>

\* the chain id literal getPaymasterData hashes
PreimageChainId == 11155111

\* the fields the constructor of the single-chain service sets
PaymasterService(cfg) ==
    [provider |-> cfg.rpcUrl,
     signer |-> cfg.paymasterPrivateKey,
     paymasterContract |-> [target |-> cfg.paymasterAddress]]

\* params[k - 1] of a request, undefined past the end of the array
EntryPointParam(params) ==
    IF params.len < 2 THEN Undefined ELSE params.entryPoint

\* context?.token of `params[3] || {}`
TokenParam(params) ==
    IF params.len < 4 THEN Undefined ELSE params.context.token

\* AbiCoder: a uint48 slot of a JavaScript number
AbiUint48(n) ==
    IF n < 0 THEN Throw ELSE Ok(PadLeft(NatToNibbles(n), 64))

\* getUserOpHashStub up to `await this.provider.getNetwork()`: the hash of
\* the ten encoded slots
packStub(userOp) ==
    LET sender == AbiAddress(userOp.sender)
        nonce == AbiUint256(userOp.nonce)
        cgl == AbiUint256(userOp.callGasLimit)
        vgl == AbiUint256(userOp.verificationGasLimit)
        pvg == AbiUint256(userOp.preVerificationGas)
        mf == AbiUint256(userOp.maxFeePerGas)
        mpf == AbiUint256(userOp.maxPriorityFeePerGas)
    IN  IF sender.ok /\ nonce.ok /\ cgl.ok /\ vgl.ok /\ pvg.ok /\ mf.ok
           /\ mpf.ok
        THEN Ok(keccak256(<< sender.v, nonce.v,
                             keccak256(OrDefault(userOp.initCode, <<>>)),
                             keccak256(OrDefault(userOp.callData, <<>>)),
                             cgl.v, vgl.v, pvg.v, mf.v, mpf.v,
                             keccak256(OrDefault(userOp.paymasterAndData,
                                                 <<>>)) >>))
        ELSE Throw

\* getUserOpHashStub from the chain id of the provider on
getUserOpHashStub(userOpHash, entryPoint, networkChainId) ==
    LET ep == AbiAddress(entryPoint)
    IN  IF ep.ok
        THEN Ok(keccak256(<< userOpHash, ep.v,
                             PadLeft(NatToNibbles(networkChainId), 64) >>))
        ELSE Throw

\* the paymasterData both handlers of the single-chain service build
StubPaymasterData(validUntil, validAfter, signature) ==
    LET vu == toBeHex(validUntil)
        va == toBeHex(validAfter)
    IN  IF vu.ok /\ va.ok
        THEN concat(<< <<0, 1>>, padStart(vu.v, 12), padStart(va.v, 12),
                       signature >>)
        ELSE Throw

\* getPaymasterStubData(id, params) up to `await this.provider.getNetwork()`;
\* clock1 and clock2 are its two readings of the clock
StubDataStart(q, service, clock1, clock2) ==
    LET failure == Uncaught("Failed to generate paymaster stub data")
        target == service.paymasterContract.target
        tokenAddress == OrDefault(TokenParam(q.params), ZeroAddress)
        q1 == [q EXCEPT !.t = clock1, !.validUntil = clock1 + 3600,
                        !.validAfter = clock2 - 60]
        packed == packStub(q.params.userOp)
    IN  IF target = Undefined \/ target = <<>> THEN Respond(q, failure)
        ELSE IF ~IsAddress(tokenAddress) THEN Respond(q, failure)
        ELSE IF q.params.len < 1 THEN Respond(q1, failure)
        ELSE IF ~packed.ok
        THEN Respond([q1 EXCEPT !.hashCalls = @ + 1], failure)
        ELSE [q1 EXCEPT !.pc = "awaitNetwork", !.hashCalls = @ + 1,
                        !.userOpHash = packed]

\* getPaymasterStubData from the chain id of the provider on, up to
\* `await this.signer.signMessage`
StubDataToSign(q, service, networkChainId) ==
    LET failure == Uncaught("Failed to generate paymaster stub data")
        userOpHash == getUserOpHashStub(q.userOpHash.v,
                                        EntryPointParam(q.params),
                                        networkChainId)
        target == AbiAddress(service.paymasterContract.target)
        token == AbiAddress(OrDefault(TokenParam(q.params), ZeroAddress))
        vu == AbiUint48(q.validUntil)
        va == AbiUint48(q.validAfter)
        q1 == [q EXCEPT !.userOpHash = userOpHash]
    IN  IF ~userOpHash.ok THEN Respond(q1, failure)
        ELSE IF ~(target.ok /\ token.ok /\ vu.ok /\ va.ok)
        THEN Respond(q1, failure)
        ELSE [q1 EXCEPT !.pc = "awaitSign", !.signCalls = @ + 1,
                        !.signer = service.signer,
                        !.dataToSign =
                            Ok(keccak256(<< userOpHash.v, target.v, token.v,
                                            vu.v, va.v >>))]

\* getPaymasterStubData(id, params) from the signature on
StubDataEnd(q, service, signature) ==
    LET failure == Uncaught("Failed to generate paymaster stub data")
        userOp == q.params.userOp
        gasLimits == calculateGasLimits(userOp)
        paymasterData == StubPaymasterData(q.validUntil, q.validAfter,
                                           signature)
        q1 == [q EXCEPT !.signature = Ok(signature)]
    IN  IF userOp.callData = Undefined \/ ~paymasterData.ok
        THEN Respond(q1, failure)
        ELSE Respond(q1, ResultEnvelope(q.id,
                 [paymaster |-> service.paymasterContract.target,
                  paymasterData |-> paymasterData.v,
                  paymasterPostOpGasLimit |-> NatToNibbles(gasLimits.postOpGas),
                  paymasterVerificationGasLimit |->
                      NatToNibbles(gasLimits.verificationGas)]))

\* getPaymasterData(id, params) up to `await this.signer.signMessage`;
\* BigInt(undefined) throws
DataStart(q, service, clock1, clock2) ==
    LET failure == Uncaught("Failed to generate paymaster data")
        userOp == q.params.userOp
        q1 == [q EXCEPT !.t = clock1, !.validUntil = clock1 + 3600,
                        !.validAfter = clock2 - 60]
        pre == createPaymasterDataWithoutSignature(
                   PreimagePaymaster, userOp.paymasterVerificationGasLimit,
                   userOp.paymasterPostOpGasLimit, clock1 + 3600, clock2 - 60)
        q2 == [q1 EXCEPT !.preimage = pre]
        hash == getUserOpHash(userOp, pre.v, PreimageChainId)
        q3 == [q2 EXCEPT !.userOpHash = hash, !.hashCalls = @ + 1]
    IN  IF q.params.len < 1 THEN Respond(q1, failure)
        ELSE IF userOp.paymasterVerificationGasLimit = Undefined
                \/ userOp.paymasterPostOpGasLimit = Undefined
        THEN Respond(q1, failure)
        ELSE IF ~pre.ok THEN Respond(q2, failure)
        ELSE IF ~hash.ok THEN Respond(q3, failure)
        ELSE [q3 EXCEPT !.pc = "awaitSign", !.signCalls = @ + 1,
                        !.signer = service.signer, !.dataToSign = hash]

\* getPaymasterData(id, params) from the signature on
DataEnd(q, service, signature) ==
    LET paymasterData == StubPaymasterData(q.validUntil, q.validAfter,
                                           signature)
        q1 == [q EXCEPT !.signature = Ok(signature)]
    IN  IF ~paymasterData.ok
        THEN Respond(q1, Uncaught("Failed to generate paymaster data"))
        ELSE Respond(q1, ResultEnvelope(q.id,
                 [paymaster |-> service.paymasterContract.target,
                  paymasterData |-> paymasterData.v]))

\* the id getUserOperationGasPrice() answers with
GasPriceId == 2

\* the id of the envelope of the default branch
InvalidMethodId == 1

\* the POST / handler sending every method it does not know to the data
\* handler
paymasterRoot_DefaultToData(q, service, clock1, clock2) ==
    CASE q.method = "pimlico_getUserOperationGasPrice" ->
             [q EXCEPT !.pc = "awaitFeeData", !.feeCalls = @ + 1]
      [] q.method = "pm_getPaymasterStubData" ->
             StubDataStart(q, service, clock1, clock2)
      [] OTHER -> DataStart(q, service, clock1, clock2)

\* the POST / handler, up to the first await of the method it routes to
paymasterRoot(q, service, clock1, clock2) ==
    CASE q.method = "pimlico_getUserOperationGasPrice" ->
             [q EXCEPT !.pc = "awaitFeeData", !.feeCalls = @ + 1]
      [] q.method = "pm_getPaymasterStubData" ->
             StubDataStart(q, service, clock1, clock2)
      [] q.method = "pm_getPaymasterData" ->
             DataStart(q, service, clock1, clock2)
      [] OTHER -> Respond(q, ErrorEnvelope(InvalidMethodId, "Invalid method"))

(***************************************************************************)
(* Spec: requests handled concurrently, each handler running without       *)
(* interruption between two awaits.                                        *)
(***************************************************************************)
MaxRequests == 2

\* the readings of Math.floor(Date.now() / 1000) while the requests run
Clock == {1762254000, 1762254001}

\* a user operation without the paymaster gas limits
BareOp ==
    [BaseOp EXCEPT !.paymasterVerificationGasLimit = Undefined,
                   !.paymasterPostOpGasLimit = Undefined]

\* a user operation without paymasterPostOpGasLimit
NoPostOpLimitOp == [BaseOp EXCEPT !.paymasterPostOpGasLimit = Undefined]

\* a user operation without a nonce
NoNonceOp == [BaseOp EXCEPT !.nonce = Undefined]

\* a user operation without callData
NoCallDataOp == [BaseOp EXCEPT !.callData = Undefined]

NoOp == [f \in DOMAIN BaseOp |-> Undefined]

\* params of a pm_ request: [userOp, entryPoint, chainId, context], cut to
\* len entries; allowAllBundlers is -1 when the context does not carry it
Params(len, userOp, entryPoint, allowAllBundlers) ==
    [len |-> len, userOp |-> userOp, entryPoint |-> entryPoint,
     chainId |-> N(1),
     context |-> [allowAllBundlers |-> allowAllBundlers, token |-> Undefined]]

RpcRequest(chainId, method, params) ==
    [IdleRequest EXCEPT !.route = "/:chainId", !.chainId = chainId,
                        !.method = method, !.params = params]

PlainParams == Params(4, BaseOp, EntryPointV07, -1)

RpcRequests ==
    { RpcRequest(Chain1, "pm_getPaymasterStubData", p) :
        p \in {PlainParams, Params(4, DeployOp, EntryPointV07, 0),
               Params(4, BareOp, EntryPointV07, 1),
               Params(4, NoNonceOp, EntryPointV07, -1),
               Params(4, NoCallDataOp, EntryPointV07, -1),
               Params(3, BaseOp, EntryPointV07, -1)} }
    \union
    { RpcRequest(Chain1, "pm_getPaymasterData", p) :
        p \in {Params(4, BaseOp, EntryPointV07, 0),
               Params(4, BaseOp, Address(85), 0),
               Params(4, BareOp, EntryPointV07, -1)} }
    \union
    { RpcRequest(c, m, PlainParams) :
        c \in {Chain1},
        m \in {"pimlico_getUserOperationGasPrice", "eth_sendUserOperation"} }
    \union
    { RpcRequest(Chain137, "pm_getPaymasterData", PlainParams) }
    \union
    { RpcRequest(Chain5, m, PlainParams) :
        m \in {"pimlico_getUserOperationGasPrice", "pm_getPaymasterStubData",
               "pm_getPaymasterData", "eth_sendUserOperation"} }
    \union
    { RpcRequest(Chain5, "pm_getPaymasterStubData",
                 Params(3, BaseOp, EntryPointV07, -1)),
      RpcRequest(<<0, 1>>, "pm_getPaymasterStubData", PlainParams),
      RpcRequest(Constructor, "pm_getPaymasterStubData", PlainParams),
      RpcRequest(Constructor, "pimlico_getUserOperationGasPrice", PlainParams) }

\* the body of a POST /paymasterAndData: {userOperation, entryPoint, chainId}
PlainRequest(userOp, entryPoint, chainId) ==
    [IdleRequest EXCEPT !.route = "/paymasterAndData", !.chainNum = chainId,
                        !.params = Params(3, userOp, entryPoint, -1)]

PlainRequests ==
    { PlainRequest(BaseOp, EntryPointV07, 1),
      PlainRequest(DeployOp, EntryPointV07, 137),
      PlainRequest(NoNonceOp, EntryPointV07, 1),
      PlainRequest(BaseOp, Address(85), 1),
      PlainRequest(BaseOp, EntryPointV07, 42) }

\* what the chain's node reports when a gas price request reads the fees
ChainFees ==
    { [baseFee |-> Gwei(30), priorityFee |-> Gwei(2)],
      [baseFee |-> Gwei(1), priorityFee |-> Null],
      [baseFee |-> Null, priorityFee |-> Null] }

Slots == 1..MaxRequests

\* the JSON-RPC id of the request in slot r
RequestId(r) == r + 1

Init ==
    /\ now \in Clock
    /\ chainRuntimes = constructor(config)
    /\ reqs = [r \in Slots |-> IdleRequest]
    /\ calc = <<>>

\* slots are taken in order
Free(r) ==
    /\ reqs[r].pc = "idle"
    /\ IF r = 1 THEN TRUE ELSE reqs[r - 1].pc # "idle"

\* POST /:chainId arrives and runs to its first await or to its end
Receive(r) ==
    /\ Free(r)
    /\ \E q \in RpcRequests :
         reqs' = [reqs EXCEPT ![r] = paymaster([q EXCEPT !.id = RequestId(r)],
                                               chainRuntimes, now)]
    /\ UNCHANGED <<now, chainRuntimes, calc>>

\* POST /paymasterAndData arrives and runs to its first await or to its end
ReceivePlain(r) ==
    /\ Free(r)
    /\ \E q \in PlainRequests :
         reqs' = [reqs EXCEPT ![r] =
                    generatePaymasterAndData(
                        q, initializeProviders(paymasterConfig).v, now)]
    /\ UNCHANGED <<now, chainRuntimes, calc>>

\* provider.getNetwork() resolves for a POST /paymasterAndData or for the
\* stub handler of POST /
NetworkReturns(r) ==
    /\ reqs[r].pc = "awaitNetwork"
    /\ reqs' = [reqs EXCEPT ![r] =
                  IF reqs[r].route = "/"
                  THEN StubDataToSign(
                           reqs[r], PaymasterService(config),
                           getNetwork(PaymasterService(config).provider).chainId)
                  ELSE HashForWallet(
                           reqs[r], initializeProviders(paymasterConfig).v,
                           getNetwork(reqs[r].chainNum).chainId)]
    /\ UNCHANGED <<now, chainRuntimes, calc>>

\* provider.getNetwork() rejects
NetworkFails(r) ==
    /\ reqs[r].pc = "awaitNetwork"
    /\ reqs' = [reqs EXCEPT ![r] =
                  IF reqs[r].route = "/"
                  THEN Respond(reqs[r], Uncaught(
                           "Failed to generate paymaster stub data"))
                  ELSE Respond(reqs[r], PlainError(500,
                           "Failed to generate paymasterAndData"))]
    /\ UNCHANGED <<now, chainRuntimes, calc>>

\* signMessage resolves in a service that keeps the digest to sign in a field
\* of its own: the handler gets the signature of the digest a later request
\* left there
SignerReturns_SharedDigest(r) ==
    /\ reqs[r].pc = "awaitSign"
    /\ LET q == reqs[r]
           later == {o \in Slots : /\ o > r
                                    /\ reqs[o].route = q.route
                                    /\ reqs[o].userOpHash.ok}
           last == IF later = {} THEN r
                   ELSE CHOOSE o \in later : \A x \in later : x <= o
           signature == signMessage(q.signer, reqs[last].userOpHash.v)
           rootSignature == signMessage(q.signer, q.dataToSign.v)
       IN  reqs' = [reqs EXCEPT ![r] =
                      IF q.route = "/paymasterAndData"
                      THEN PaymasterAndDataResult(q, signature)
                      ELSE IF q.route = "/"
                      THEN IF q.method = "pm_getPaymasterStubData"
                           THEN StubDataEnd(q, PaymasterService(config),
                                            rootSignature)
                           ELSE DataEnd(q, PaymasterService(config),
                                        rootSignature)
                      ELSE IF q.method = "pm_getPaymasterStubData"
                      THEN StubDataResult(q, chainRuntimes, signature)
                      ELSE PaymasterDataResult(q, chainRuntimes, signature)]
    /\ UNCHANGED <<now, chainRuntimes, calc>>

\* signMessage resolves and the handler runs to its end
SignerReturns(r) ==
    /\ reqs[r].pc = "awaitSign"
    /\ LET q == reqs[r]
           signature == signMessage(q.signer, q.userOpHash.v)
           rootSignature == signMessage(q.signer, q.dataToSign.v)
       IN  reqs' = [reqs EXCEPT ![r] =
                      IF q.route = "/paymasterAndData"
                      THEN PaymasterAndDataResult(q, signature)
                      ELSE IF q.route = "/"
                      THEN IF q.method = "pm_getPaymasterStubData"
                           THEN StubDataEnd(q, PaymasterService(config),
                                            rootSignature)
                           ELSE DataEnd(q, PaymasterService(config),
                                        rootSignature)
                      ELSE IF q.method = "pm_getPaymasterStubData"
                      THEN StubDataResult(q, chainRuntimes, signature)
                      ELSE PaymasterDataResult(q, chainRuntimes, signature)]
    /\ UNCHANGED <<now, chainRuntimes, calc>>

\* signMessage rejects and the handlers of POST /:chainId go on with 65 zero
\* bytes in place of the signature
SignerFails_ZeroSignature(r) ==
    /\ reqs[r].pc = "awaitSign"
    /\ LET q == reqs[r]
       IN  reqs' = [reqs EXCEPT ![r] =
                      IF q.route = "/paymasterAndData"
                      THEN Respond(q, PlainError(500,
                               "Failed to generate paymasterAndData"))
                      ELSE IF q.method = "pm_getPaymasterStubData"
                      THEN StubDataResult(q, chainRuntimes, Zeros(130))
                      ELSE PaymasterDataResult(q, chainRuntimes, Zeros(130))]
    /\ UNCHANGED <<now, chainRuntimes, calc>>

\* signMessage rejects: the catch block of the handler turns it into an error
SignerFails(r) ==
    /\ reqs[r].pc = "awaitSign"
    /\ LET q == reqs[r]
       IN  reqs' = [reqs EXCEPT ![r] =
                      IF q.route = "/paymasterAndData"
                      THEN Respond(q, PlainError(500,
                               "Failed to generate paymasterAndData"))
                      ELSE IF q.method = "pm_getPaymasterStubData"
                      THEN Respond(q, Uncaught(
                               "Failed to generate paymaster stub data"))
                      ELSE Respond(q, Uncaught(
                               "Failed to generate paymaster data"))]
    /\ UNCHANGED <<now, chainRuntimes, calc>>

\* provider.getFeeData() resolves and getUserOperationGasPrice runs to its end
FeeDataReturns(r) ==
    /\ reqs[r].pc = "awaitFeeData"
    /\ \E fees \in ChainFees :
         reqs' = [reqs EXCEPT ![r] =
                    Respond([reqs[r] EXCEPT !.feeData = Ok(getFeeData(fees))],
                            ResultEnvelope(
                                IF reqs[r].route = "/" THEN GasPriceId
                                ELSE reqs[r].id,
                                getUserOperationGasPrice(getFeeData(fees))))]
    /\ UNCHANGED <<now, chainRuntimes, calc>>

\* provider.getFeeData() rejects
FeeDataFails(r) ==
    /\ reqs[r].pc = "awaitFeeData"
    /\ reqs' = [reqs EXCEPT ![r] =
                  Respond(reqs[r], Uncaught("Failed to get gas price"))]
    /\ UNCHANGED <<now, chainRuntimes, calc>>

\* a second passes
Tick ==
    /\ now + 1 \in Clock
    /\ now' = now + 1
    /\ UNCHANGED <<chainRuntimes, reqs, calc>>

Next ==
    \/ \E r \in Slots : Receive(r)
    \/ \E r \in Slots : ReceivePlain(r)
    \/ \E r \in Slots : NetworkReturns(r)
    \/ \E r \in Slots : NetworkFails(r)
    \/ \E r \in Slots : SignerReturns(r)
    \/ \E r \in Slots : SignerFails(r)
    \/ \E r \in Slots : FeeDataReturns(r)
    \/ \E r \in Slots : FeeDataFails(r)
    \/ Tick

Spec == Init /\ [][Next]_vars

Done(r) == reqs[r].pc = "done"

\* the request in slot r was answered with an authorization
Authorized(r) ==
    /\ Done(r)
    /\ reqs[r].response.kind \in {"result", "plain"}
    /\ reqs[r].signature.ok

TypeOK ==
    /\ now \in Nat
    /\ \A r \in Slots : reqs[r].pc \in {"idle", "awaitNetwork", "awaitSign",
                                        "awaitFeeData", "done"}

(***************************************************************************)
(* Properties of the request handlers (Spec).                              *)
(***************************************************************************)
\* the validity window an authorization carries, read back from its bytes
CarriedWindow(q) ==
    IF q.route = "/paymasterAndData"
    THEN LET blob == q.response.result.paymasterAndData
         IN  [validUntil |-> NibblesToNat(SubSeq(blob, 41, 104)),
              validAfter |-> NibblesToNat(SubSeq(blob, 105, 168))]
    ELSE LET blob == q.response.result.paymasterData
         IN  [validUntil |-> NibblesToNat(SubSeq(blob, 3, 14)),
              validAfter |-> NibblesToNat(SubSeq(blob, 15, 26))]

\* the mode byte of pm_ paymaster data, as a number
ModeByte(blob) == NibblesToNat(SubSeq(blob, 1, 2))

IsRpcAuthorization(r) == Authorized(r) /\ reqs[r].route = "/:chainId"

\* C1: a request whose chain id is not a key of the chain registry, whatever
\* its method and params, is answered with an error envelope of code -32603,
\* and no digest is computed and no signer called for it.
C1_UnsupportedChainRejected ==
    \A r \in Slots :
        (reqs[r].pc # "idle" /\ reqs[r].route = "/:chainId"
         /\ reqs[r].chainId \notin DOMAIN chainRuntimes)
        => /\ Done(r)
           /\ reqs[r].response.kind = "error"
           /\ reqs[r].response.code = -32603
           /\ reqs[r].hashCalls = 0
           /\ reqs[r].signCalls = 0

\* C3: every authorization produced at clock reading T, by
\* pm_getPaymasterStubData, pm_getPaymasterData or generatePaymasterAndData,
\* carries validAfter = T - 60 and validUntil = T + 3600.
C3_WindowAroundClock ==
    \A r \in Slots :
        Authorized(r)
        => /\ CarriedWindow(reqs[r]).validAfter = reqs[r].t - 60
           /\ CarriedWindow(reqs[r]).validUntil = reqs[r].t + 3600

\* the spec's fixed window: 1 hour lookahead and 1 minute lookback
Window == VALIDITY_WINDOW_SECONDS + VALIDITY_BEFORE_SECONDS

FeeDataUnavailable(r) ==
    /\ Done(r)
    /\ reqs[r].route = "/:chainId"
    /\ reqs[r].method = "pimlico_getUserOperationGasPrice"
    /\ reqs[r].feeCalls = 1
    /\ \/ ~reqs[r].feeData.ok
       \/ reqs[r].feeData.v.maxPriorityFeePerGas = Null
       \/ reqs[r].feeData.v.gasPrice = Null

\* the tiers of priority fee 1.5 gwei and base fee 30 gwei, counted in
\* thousands of wei: the priority fee is raised by half and scaled by 80, 100
\* and 120 percent, and each maximum fee is one and a half times base plus
\* priority
DefaultTiers ==
    LET p == 2250000
        \* n thousand wei as a hex string
        Hex(n) == [neg |-> FALSE, hex |-> MulSmallN(NatToNibbles(n), 1000)]
        MaxFee(priority) == Hex(((30000000 + priority) * 3) \div 2)
    IN  [fast |-> [maxFeePerGas |-> MaxFee((p * 120) \div 100),
                   maxPriorityFeePerGas |-> Hex((p * 120) \div 100)],
         slow |-> [maxFeePerGas |-> MaxFee((p * 80) \div 100),
                   maxPriorityFeePerGas |-> Hex((p * 80) \div 100)],
         standard |-> [maxFeePerGas |-> MaxFee(p),
                       maxPriorityFeePerGas |-> Hex(p)]]

\* C11: a gas price request whose fee data is unavailable (the fetch failed,
\* or reported no priority fee or no gas price) is answered with a result and
\* never with an error; when nothing is available, the result is the tiers
\* of the fixed defaults
C11_DefaultsWhenFeeDataUnavailable ==
    \A r \in Slots :
        FeeDataUnavailable(r) =>
            /\ reqs[r].response.kind = "result"
            /\ (~reqs[r].feeData.ok
                \/ (reqs[r].feeData.v.maxPriorityFeePerGas = Null
                    /\ reqs[r].feeData.v.gasPrice = Null))
               => reqs[r].response.result = DefaultTiers

\* the part of C11 about a fetch that succeeds with nothing in it
NullFeesGiveDefaults ==
    \A r \in Slots :
        (FeeDataUnavailable(r) /\ reqs[r].feeData.ok
         /\ reqs[r].feeData.v.maxPriorityFeePerGas = Null
         /\ reqs[r].feeData.v.gasPrice = Null)
        => reqs[r].response.result = DefaultTiers

(***************************************************************************)
(* SpecDispatch: the two JSON-RPC dispatchers side by side, POST / in      *)
(* front of the single-chain service and POST /:chainId in front of the    *)
(* multi-chain one.                                                        *)
(***************************************************************************)
RootRequest(method, params) ==
    [IdleRequest EXCEPT !.route = "/", !.method = method, !.params = params]

RootRequests ==
    { RootRequest(m, PlainParams) :
        m \in {"pimlico_getUserOperationGasPrice", "pm_getPaymasterStubData",
               "pm_getPaymasterData", "eth_sendUserOperation"} }
    \union
    { RootRequest("pm_getPaymasterData", Params(4, op, EntryPointV07, -1)) :
        op \in {BareOp, NoPostOpLimitOp} }

\* the requests to chain 1 that meet the method switch with the entry point
\* of the configuration: all for pm_getPaymasterData and for the method that
\* no dispatcher routes, and one for pm_getPaymasterStubData
DispatchRequests ==
    { q \in RpcRequests :
        /\ q.chainId = Chain1
        /\ q.params.entryPoint = EntryPointV07
        /\ \/ q.method \in {"pm_getPaymasterData", "eth_sendUserOperation"}
           \/ q.method = "pm_getPaymasterStubData" /\ q.params = PlainParams }

\* the methods whose handlers read the clock, twice in a row
ReadsClock(q) ==
    q.method \in {"pm_getPaymasterStubData", "pm_getPaymasterData"}

\* POST / arrives and runs to its first await or to its end; a second may
\* pass between the two readings of the clock
ReceiveRoot(r) ==
    /\ Free(r)
    /\ \E q \in RootRequests, clock2 \in {now, now + 1} \cap Clock :
         /\ ReadsClock(q) \/ clock2 = now
         /\ reqs' = [reqs EXCEPT ![r] =
                       paymasterRoot([q EXCEPT !.id = RequestId(r)],
                                     PaymasterService(config), now, clock2)]
         /\ now' = clock2
    /\ UNCHANGED <<chainRuntimes, calc>>

\* POST /:chainId arrives with one of DispatchRequests
ReceiveDispatch(r) ==
    /\ Free(r)
    /\ \E q \in DispatchRequests :
         reqs' = [reqs EXCEPT ![r] = paymaster([q EXCEPT !.id = RequestId(r)],
                                               chainRuntimes, now)]
    /\ UNCHANGED <<now, chainRuntimes, calc>>

NextDispatch ==
    \/ \E r \in Slots : ReceiveRoot(r)
    \/ \E r \in Slots : ReceiveDispatch(r)
    \/ \E r \in Slots : NetworkReturns(r)
    \/ \E r \in Slots : NetworkFails(r)
    \/ \E r \in Slots : SignerReturns(r)
    \/ \E r \in Slots : SignerFails(r)
    \/ \E r \in Slots : FeeDataReturns(r)
    \/ \E r \in Slots : FeeDataFails(r)
    \/ Tick

SpecDispatch == Init /\ [][NextDispatch]_vars

(***************************************************************************)
(* Properties of the dispatchers and their handlers' failures.             *)
(***************************************************************************)
\* C12: every failure inside a method handler of POST /:chainId reaches the
\* caller as the envelope {jsonrpc, error: {code: -32603, message}, id}:
\* every answered request has a result or that envelope, with its own id
C12_FailuresBecomeEnvelopes ==
    \A r \in Slots :
        (Done(r) /\ reqs[r].route = "/:chainId") =>
            /\ reqs[r].response.kind \in {"result", "error"}
            /\ reqs[r].response.kind = "error" =>
                   /\ reqs[r].response.code = -32603
                   /\ reqs[r].response.id = reqs[r].id

\* the methods the switch of a dispatcher routes
Routed ==
    {"pimlico_getUserOperationGasPrice", "pm_getPaymasterStubData",
     "pm_getPaymasterData"}

\* slot r holds a JSON-RPC request for a method no dispatcher routes, to
\* POST / or to POST /:chainId of a configured chain
Unrouted(r) ==
    /\ reqs[r].pc # "idle"
    /\ reqs[r].method \notin Routed
    /\ \/ reqs[r].route = "/"
       \/ reqs[r].route = "/:chainId" /\ reqs[r].chainId \in DOMAIN config.chains

\* C13: a request for a method the dispatcher does not route is answered at
\* once with an error envelope of code -32603, and no service method has run
\* for it: no digest, no signer call, no fee-data fetch
C13_UnroutedMethodRejected ==
    \A r \in Slots :
        Unrouted(r) =>
            /\ Done(r)
            /\ reqs[r].response.kind = "error"
            /\ reqs[r].response.code = -32603
            /\ reqs[r].response.result = NoResult
            /\ reqs[r].hashCalls = 0
            /\ reqs[r].signCalls = 0
            /\ reqs[r].feeCalls = 0
            /\ ~reqs[r].userOpHash.ok
            /\ ~reqs[r].signature.ok

\* both dispatchers have answered a request for eth_sendUserOperation
C13_Witness ==
    \E r1, r2 \in Slots :
        /\ Unrouted(r1) /\ Unrouted(r2)
        /\ reqs[r1].route = "/" /\ reqs[r2].route = "/:chainId"
        /\ reqs[r1].method = "eth_sendUserOperation"
        /\ reqs[r2].method = "eth_sendUserOperation"
        /\ Done(r1) /\ Done(r2)

\* slot r holds a pm_ request to POST /:chainId
IsPmRequest(r) ==
    /\ reqs[r].pc # "idle"
    /\ reqs[r].route = "/:chainId"
    /\ reqs[r].method \in {"pm_getPaymasterStubData", "pm_getPaymasterData"}

\* the entry point a request names is one of the configuration
RecognisedEntryPoint(params) ==
    /\ params.len >= 2
    /\ params.entryPoint \in DOMAIN paymasterConfig.entryPoints

\* C14: a pm_ request whose entry point is not a recognised one is rejected
\* with an error envelope before any digest is computed or signed
C14_EntryPointValidatedFirst ==
    \A r \in Slots :
        (IsPmRequest(r) /\ ~RecognisedEntryPoint(reqs[r].params)) =>
            /\ Done(r)
            /\ reqs[r].response.kind = "error"
            /\ reqs[r].hashCalls = 0
            /\ reqs[r].signCalls = 0

\* the part of C14 that the code keeps: the chain is checked before the
\* handler's cryptographic work
ChainValidatedFirst ==
    \A r \in Slots :
        (IsPmRequest(r) /\ reqs[r].chainId \notin DOMAIN config.chains
         /\ reqs[r].chainId \notin InheritedKeys) =>
            /\ Done(r)
            /\ reqs[r].response.kind = "error"
            /\ reqs[r].hashCalls = 0
            /\ reqs[r].signCalls = 0

\* the signature part of pm_ paymaster data: what follows the mode byte and
\* the two timestamps of six bytes
CarriedSignature(blob) == SubSeq(blob, 27, Len(blob))

\* the sender a signature of signMessage was made for (eight bytes of it)
SignedSender(signature) == SubSeq(signature, 65, 80)

\* C15: a pm_ request has a result only after the signer of its chain
\* returned a signature over the digest of that same request, and the
\* paymasterData of the result carries exactly that signature; a request
\* whose signer failed ends in an error without paymasterData
C15_ResultCarriesOwnSignature ==
    \A r \in Slots :
        IsPmRequest(r) =>
            LET q == reqs[r]
                rt == Runtime(chainRuntimes, q.chainId)
            IN  /\ (Done(r) /\ q.response.kind = "result") =>
                       /\ q.signCalls = 1
                       /\ q.signature.ok
                       /\ q.userOpHash =
                              getUserOpHash(q.params.userOp, q.preimage.v,
                                            Number(q.chainId))
                       /\ q.signature.v = signMessage(rt.signer, q.userOpHash.v)
                       /\ SignedSender(q.signature.v) =
                              SubSeq(q.params.userOp.sender, 25, 40)
                       /\ CarriedSignature(q.response.result.paymasterData) =
                              q.signature.v
                /\ (Done(r) /\ ~q.signature.ok) =>
                       /\ q.response.kind # "result"
                       /\ q.response.result = NoResult
                /\ q.signature.ok => q.signCalls = 1

\* one request answered with a signed result next to one whose signer failed
C15_Witness ==
    \E r1, r2 \in Slots :
        /\ IsPmRequest(r1) /\ Done(r1)
        /\ reqs[r1].response.kind = "result"
        /\ CarriedSignature(reqs[r1].response.result.paymasterData) =
               reqs[r1].signature.v
        /\ IsPmRequest(r2) /\ Done(r2)
        /\ reqs[r2].signCalls = 1 /\ ~reqs[r2].signature.ok
        /\ reqs[r2].response.kind = "uncaught"

\* slot r holds a pm_getPaymasterData request, to POST / or to POST /:chainId
\* of a configured chain, whose user operation lacks a paymaster gas limit
LacksPaymasterLimit(r) ==
    /\ reqs[r].pc # "idle"
    /\ reqs[r].method = "pm_getPaymasterData"
    /\ \/ reqs[r].route = "/"
       \/ reqs[r].route = "/:chainId" /\ reqs[r].chainId \in DOMAIN config.chains
    /\ reqs[r].params.len >= 1
    /\ \/ reqs[r].params.userOp.paymasterVerificationGasLimit = Undefined
       \/ reqs[r].params.userOp.paymasterPostOpGasLimit = Undefined

\* C16: pm_getPaymasterData for a user operation without
\* paymasterVerificationGasLimit or without paymasterPostOpGasLimit ends in
\* an error at once, and the signer is never called for it
C16_MissingLimitsRejected ==
    \A r \in Slots :
        LacksPaymasterLimit(r) =>
            /\ Done(r)
            /\ reqs[r].response.kind \in {"error", "uncaught"}
            /\ reqs[r].response.result = NoResult
            /\ reqs[r].signCalls = 0
            /\ reqs[r].signer = Undefined
            /\ ~reqs[r].signature.ok

\* both services have refused an operation without the limits
C16_Witness ==
    \E r1, r2 \in Slots :
        /\ LacksPaymasterLimit(r1) /\ reqs[r1].route = "/"
        /\ LacksPaymasterLimit(r2) /\ reqs[r2].route = "/:chainId"
        /\ Done(r1) /\ Done(r2)
        /\ reqs[r1].signCalls = 0 /\ reqs[r2].signCalls = 0

\* slot r holds a pm_ request for a configured chain whose params are
\* (userOp, entryPoint, chainId), the user operation well formed
WithoutContext(r) ==
    /\ IsPmRequest(r)
    /\ reqs[r].chainId \in DOMAIN config.chains
    /\ reqs[r].params.len = 3
    /\ reqs[r].params.userOp \in {BaseOp, DeployOp}
    /\ RecognisedEntryPoint(reqs[r].params)

\* C17: the context is optional: a pm_ request without it that is answered,
\* its signer not having failed, is answered with a result
C17_ContextOptional ==
    \A r \in Slots :
        (WithoutContext(r) /\ Done(r)
         /\ ~(reqs[r].signCalls = 1 /\ ~reqs[r].signature.ok))
        => reqs[r].response.kind = "result"

(***************************************************************************)
(* SpecAbsent: two pm_ requests to chain 1 that differ only in one byte    *)
(* field of the user operation, absent in the first and empty in the       *)
(* second.                                                                 *)
(***************************************************************************)
ByteFields == {"initCode", "callData"}

\* the pairs of requests: slot 1 gets the operation without the field, slot 2
\* the one with the field empty
AbsentPairs ==
    { [absent |-> RpcRequest(Chain1, m,
                     Params(4, [op EXCEPT ![f] = Undefined], EntryPointV07, -1)),
       empty |-> RpcRequest(Chain1, m,
                     Params(4, [op EXCEPT ![f] = <<>>], EntryPointV07, -1))] :
        m \in {"pm_getPaymasterStubData", "pm_getPaymasterData"},
        f \in ByteFields, op \in {BaseOp, DeployOp} }

InitAbsent ==
    /\ now \in Clock
    /\ chainRuntimes = constructor(config)
    /\ reqs = [r \in Slots |-> IdleRequest]
    /\ calc \in AbsentPairs

\* POST /1 arrives with a request of the pair, in either order
ReceivePair(r) ==
    /\ r \in {1, 2}
    /\ reqs[r].pc = "idle"
    /\ LET q == IF r = 1 THEN calc.absent ELSE calc.empty
       IN  reqs' = [reqs EXCEPT ![r] = paymaster([q EXCEPT !.id = RequestId(r)],
                                                 chainRuntimes, now)]
    /\ UNCHANGED <<now, chainRuntimes, calc>>

NextAbsent ==
    \/ \E r \in Slots : ReceivePair(r)
    \/ \E r \in Slots : SignerReturns(r)
    \/ \E r \in Slots : SignerFails(r)
    \/ Tick

SpecAbsent == InitAbsent /\ [][NextAbsent]_vars

\* both requests of the pair were handled at the same clock reading and
\* answered, and no signer failed
PairAnswered ==
    /\ Done(1) /\ Done(2)
    /\ reqs[1].t = reqs[2].t
    /\ \A r \in {1, 2} : reqs[r].signCalls = 1 => reqs[r].signature.ok

\* C18: at the same clock reading on the same chain, a pm_ request for an
\* operation whose initCode or callData is absent has the same outcome as
\* the request for the operation with that field empty: the same digest is
\* signed and the same result returned
C18_AbsentBytesAsEmpty ==
    PairAnswered =>
        /\ reqs[1].userOpHash = reqs[2].userOpHash
        /\ reqs[1].signature = reqs[2].signature
        /\ reqs[1].response.kind = reqs[2].response.kind
        /\ reqs[1].response.result = reqs[2].response.result

\* the part of C18 that the code keeps: the digest that is signed
AbsentBytesSameDigest ==
    PairAnswered =>
        /\ reqs[1].userOpHash = reqs[2].userOpHash
        /\ reqs[1].signature = reqs[2].signature

(***************************************************************************)
(* Properties of the digest of operations with absent fields (SpecHash).   *)
(***************************************************************************)
NumericFields == {"nonce", "callGasLimit", "verificationGasLimit",
                  "preVerificationGas", "maxFeePerGas", "maxPriorityFeePerGas"}

\* the first operation of the pair lacks numeric field f and the second has
\* it set to 0, all else being the same, and both were hashed
AbsentAgainstZero(f) ==
    /\ calc.fn = "packed"
    /\ calc.a.done /\ calc.b.done
    /\ SameContext
    /\ calc.a.userOp[f] = Undefined
    /\ calc.b.userOp = [calc.a.userOp EXCEPT ![f] = N(0)]

\* C19: for each numeric field, the digest of an operation without the field
\* is the digest of the same operation with the field set to 0
C19_AbsentNumberAsZero ==
    \A f \in NumericFields :
        AbsentAgainstZero(f) =>
            /\ calc.a.digest.ok
            /\ calc.a.digest = calc.b.digest

\* the part of C19 that the code keeps: the four fields of the packed words
AbsentLimbAsZero ==
    \A f \in LimbFields :
        AbsentAgainstZero(f) =>
            /\ calc.a.digest.ok
            /\ calc.a.digest = calc.b.digest

\* the 256-bit word with high in its upper and low in its lower 128 bits
Word128(high, low) == PadLeft(high, 32) \o PadLeft(low, 32)

\* the eight slots of the inner hash, written out from the operation
EightSlots(userOp, preimage) ==
    << PadLeft(userOp.sender, 64),
       PadLeft(userOp.nonce, 64),
       Word128(OrDefault(userOp.verificationGasLimit, <<>>),
               OrDefault(userOp.callGasLimit, <<>>)),
       PadLeft(userOp.preVerificationGas, 64),
       Word128(OrDefault(userOp.maxPriorityFeePerGas, <<>>),
               OrDefault(userOp.maxFeePerGas, <<>>)),
       keccak256(OrDefault(userOp.initCode, <<>>)),
       keccak256(OrDefault(userOp.callData, <<>>)),
       keccak256(preimage) >>

\* C20: the inner hash of the packed-limb scheme is taken over exactly eight
\* slots in the order sender, nonce, accountGasLimits, preVerificationGas,
\* gasFees, hash(initCode), hash(callData), hash(preimage), where
\* accountGasLimits is (verificationGasLimit << 128) | callGasLimit and
\* gasFees is (maxPriorityFeePerGas << 128) | maxFeePerGas (limbs below 2^128)
C20_InnerHashOverEightSlots ==
    \A s \in {"a", "b"} :
        (calc.fn = "packed" /\ calc[s].done /\ calc[s].digest.ok
         /\ \A g \in LimbFields : Fits128(OrDefault(calc[s].userOp[g], <<>>)))
        => LET inner == calc[s].digest.v.keccak256[1].keccak256
           IN  /\ Len(inner) = 8
               /\ inner = EightSlots(calc[s].userOp, calc[s].preimage)

\* a digest of an operation whose four limbs are all different
C20_Witness ==
    /\ calc.fn = "packed"
    /\ calc.a.done /\ calc.a.digest.ok
    /\ calc.a.userOp = BaseOp
    /\ Len(calc.a.digest.v.keccak256[1].keccak256) = 8

(***************************************************************************)
(* Construction of the services from a configuration (SpecConstruct): the  *)
(* process starts with a configuration, builds the service, and serves     *)
(* requests if the constructor returned.                                   *)
(***************************************************************************)
\* configurations of the multi-chain service: the chains of config, each
\* with its rpc or without one
ChainConfigs ==
    { [config EXCEPT !.chains =
         [c \in DOMAIN config.chains |->
            [config.chains[c] EXCEPT
               !.rpc = IF c \in unset THEN Undefined
                       ELSE config.chains[c].rpc]]] :
      unset \in SUBSET DOMAIN config.chains }

\* configurations of the first draft: the RPC_URL_ variables of the
\* environment set or not
DraftConfigs ==
    { [paymasterConfig EXCEPT !.rpcUrls =
         [c \in paymasterConfig.supportedChains |->
            IF c \in unset THEN <<>> ELSE paymasterConfig.rpcUrls[c]]] :
      unset \in SUBSET paymasterConfig.supportedChains }

\* the process before the service is constructed
Startup(service, cfg) ==
    [service |-> service, config |-> cfg, phase |-> "startup",
     wallets |-> <<>>]

InitConstruct ==
    /\ now \in Clock
    /\ chainRuntimes = <<>>
    /\ reqs = [r \in Slots |-> IdleRequest]
    /\ calc \in { Startup("multi", cfg) : cfg \in ChainConfigs }
                \union { Startup("draft", cfg) : cfg \in DraftConfigs }

\* new PaymasterService(config) of the route plugin
ConstructService ==
    /\ calc.phase = "startup"
    /\ calc.service = "multi"
    /\ chainRuntimes' = constructor(calc.config)
    /\ calc' = [calc EXCEPT !.phase = "serving"]
    /\ UNCHANGED <<now, reqs>>

\* new PaymasterService(paymasterConfig) of the first draft's plugin: an
\* Error of initializeProviders rejects the plugin and the server never
\* listens
ConstructDraft ==
    /\ calc.phase = "startup"
    /\ calc.service = "draft"
    /\ LET built == initializeProviders(calc.config)
       IN  calc' = IF built.ok
                   THEN [calc EXCEPT !.phase = "serving", !.wallets = built.v]
                   ELSE [calc EXCEPT !.phase = "failed"]
    /\ UNCHANGED <<now, chainRuntimes, reqs>>

ConstructRequests ==
    { RpcRequest(c, m, PlainParams) :
        c \in {Chain1, Chain137, Chain5},
        m \in {"pm_getPaymasterStubData", "pm_getPaymasterData",
               "pimlico_getUserOperationGasPrice"} }

\* POST /:chainId arrives and the service registers a runtime for a chain
\* id it does not know yet, with the endpoint and address of chain 1
ReceiveServed_RegistersChain(r) ==
    /\ calc.phase = "serving"
    /\ calc.service = "multi"
    /\ Free(r)
    /\ \E q \in ConstructRequests :
         LET known == [c \in DOMAIN chainRuntimes \union {q.chainId} |->
                         IF c \in DOMAIN chainRuntimes THEN chainRuntimes[c]
                         ELSE constructor(config)[Chain1]]
         IN  /\ chainRuntimes' = known
             /\ reqs' = [reqs EXCEPT ![r] =
                           paymaster([q EXCEPT !.id = RequestId(r)], known, now)]
    /\ UNCHANGED <<now, calc>>

\* POST /:chainId arrives at the constructed multi-chain service
ReceiveServed(r) ==
    /\ calc.phase = "serving"
    /\ calc.service = "multi"
    /\ Free(r)
    /\ \E q \in ConstructRequests :
         reqs' = [reqs EXCEPT ![r] = paymaster([q EXCEPT !.id = RequestId(r)],
                                               chainRuntimes, now)]
    /\ UNCHANGED <<now, chainRuntimes, calc>>

\* POST /paymasterAndData arrives at the constructed first draft
ReceiveServedPlain(r) ==
    /\ calc.phase = "serving"
    /\ calc.service = "draft"
    /\ Free(r)
    /\ reqs' = [reqs EXCEPT ![r] =
                  generatePaymasterAndData(
                      PlainRequest(BaseOp, EntryPointV07, 1),
                      calc.wallets, now)]
    /\ UNCHANGED <<now, chainRuntimes, calc>>

NextConstruct ==
    \/ ConstructService
    \/ ConstructDraft
    \/ \E r \in Slots : ReceiveServed(r)
    \/ \E r \in Slots : ReceiveServedPlain(r)
    \/ \E r \in Slots : NetworkReturns(r)
    \/ \E r \in Slots : NetworkFails(r)
    \/ \E r \in Slots : SignerReturns(r)
    \/ \E r \in Slots : SignerFails(r)
    \/ \E r \in Slots : FeeDataReturns(r)
    \/ \E r \in Slots : FeeDataFails(r)

SpecConstruct == InitConstruct /\ [][NextConstruct]_vars

\* some chain of the configuration has no RPC endpoint
LacksEndpoint ==
    IF calc.service = "multi"
    THEN \E c \in DOMAIN calc.config.chains :
           calc.config.chains[c].rpc = Undefined
    ELSE \E c \in calc.config.supportedChains :
           calc.config.rpcUrls[c] \in {<<>>, Undefined}

\* C21: when some configured chain has no RPC endpoint, construction fails:
\* no service instance exists and no request for any chain is handled
C21_MissingEndpointFailsConstruction ==
    LacksEndpoint =>
        /\ calc.phase # "serving"
        /\ \A r \in Slots : reqs[r].pc = "idle"

\* the first draft alone: initializeProviders throws on the missing URL
DraftFailsFast ==
    (calc.service = "draft" /\ LacksEndpoint) => calc.phase \in {"startup", "failed"}

\* the multi-chain service signs for a chain it has no endpoint for
SignsWithoutEndpoint ==
    /\ calc.service = "multi"
    /\ \E r \in Slots :
         /\ Authorized(r)
         /\ calc.config.chains[reqs[r].chainId].rpc = Undefined

\* C22: after construction no request, answered with a result, with an error
\* or still in flight, changes the chain registry: the chain ids and each
\* chain's endpoint, paymaster address and signer stay as constructed
C22_RegistryAsConstructed ==
    /\ (calc.phase = "serving" /\ calc.service = "multi") =>
           chainRuntimes = constructor(calc.config)
    /\ (calc.phase = "serving" /\ calc.service = "draft") =>
           calc.wallets = initializeProviders(calc.config).v

\* the registry after one request was answered with an authorization and
\* another ended in an error
C22_Witness ==
    /\ calc.phase = "serving"
    /\ calc.service = "multi"
    /\ chainRuntimes = constructor(calc.config)
    /\ \E r1, r2 \in Slots :
         /\ Authorized(r1)
         /\ Done(r2)
         /\ reqs[r2].response.kind # "result"

(***************************************************************************)
(* Concurrent requests against the request run alone (SpecDispatch).       *)
(***************************************************************************)
\* the request of slot q as it arrived
Arrived(q) ==
    [IdleRequest EXCEPT !.route = q.route, !.id = q.id, !.method = q.method,
                        !.chainId = q.chainId, !.params = q.params]

\* a POST /:chainId request run alone from its arrival to where q stands,
\* with the clock reading q used and the answers q got from the signer and
\* from the chain's node
Alone(q, rt) ==
    LET start == paymaster(Arrived(q), rt, IF q.t = -1 THEN now ELSE q.t)
        stub == q.method = "pm_getPaymasterStubData"
    IN  IF start.pc = "awaitSign"
        THEN IF q.pc = "awaitSign" THEN start
             ELSE IF ~q.signature.ok
             THEN Respond(start, Uncaught(
                      IF stub THEN "Failed to generate paymaster stub data"
                      ELSE "Failed to generate paymaster data"))
             ELSE IF stub
             THEN StubDataResult(start, rt,
                      signMessage(start.signer, start.userOpHash.v))
             ELSE PaymasterDataResult(start, rt,
                      signMessage(start.signer, start.userOpHash.v))
        ELSE IF start.pc = "awaitFeeData"
        THEN IF q.pc = "awaitFeeData" THEN start
             ELSE IF ~q.feeData.ok
             THEN Respond(start, Uncaught("Failed to get gas price"))
             ELSE Respond([start EXCEPT !.feeData = q.feeData],
                          ResultEnvelope(start.id,
                              getUserOperationGasPrice(q.feeData.v)))
        ELSE start

checkIfSenderIsAllowed(sender) == TRUE

validateOperation(userOp) == TRUE

estimateGasCosts(userOp, entryPoint) ==
    [totalGas |-> "1000000", totalCost |-> "0.0001"]

\* an entry of the policies array: an object with or without a truthy
\* isApplicable, or null
Policy(isApplicable) == [json |-> "object", isApplicable |-> isApplicable]

NullPolicy == [json |-> "null", isApplicable |-> FALSE]

\* policies.filter(p => p.isApplicable): reading the property of null throws
filterApplicable(policies) ==
    IF \E i \in 1..Len(policies) : policies[i].json = "null" THEN Throw
    ELSE Ok(SelectSeq(policies, LAMBDA p : p.isApplicable))

\* validateSponsorshipPolicies from the answers of its checks on: a result
\* with a reason and a result with sponsorshipInfo and a reason as well
PolicyDecision_ReasonAlways(isAllowedSender, isAllowedOperation, gasEstimation, policies) ==
    IF ~isAllowedSender \/ ~isAllowedOperation \/ ~policies.ok
    THEN Ok([isSponsored |-> FALSE,
             reason |-> "Sender address is not allowed for sponsorship"])
    ELSE Ok([isSponsored |-> TRUE,
             reason |-> "",
             sponsorshipInfo |->
                 [estimatedGasCost |-> gasEstimation.totalCost,
                  estimatedGas |-> gasEstimation.totalGas,
                  policies |-> policies.v]])

\* validateSponsorshipPolicies from the answers of its checks on; policies is
\* the outcome of the filter, evaluated only for a sponsored operation
PolicyDecision(isAllowedSender, isAllowedOperation, gasEstimation, policies) ==
    IF ~isAllowedSender
    THEN Ok([isSponsored |-> FALSE,
             reason |-> "Sender address is not allowed for sponsorship"])
    ELSE IF ~isAllowedOperation
    THEN Ok([isSponsored |-> FALSE,
             reason |-> "Operation type is not eligible for sponsorship"])
    ELSE IF ~policies.ok THEN Throw
    ELSE Ok([isSponsored |-> TRUE,
             sponsorshipInfo |->
                 [estimatedGasCost |-> gasEstimation.totalCost,
                  estimatedGas |-> gasEstimation.totalGas,
                  policies |-> policies.v]])

\* params of pm_validateSponsorshipPolicies: [userOp, entryPoint, policies],
\* cut to len entries
PolicyParams(len, userOp, policies) ==
    [len |-> len, userOp |-> userOp, entryPoint |-> EntryPointV07,
     policies |-> policies]

\* validateSponsorshipPolicies(params[0], params[1], params[2]): an undefined
\* userOp or policies throws a TypeError, which the catch block rethrows
validateSponsorshipPolicies(params) ==
    IF params.len < 1 THEN Throw
    ELSE PolicyDecision(
             checkIfSenderIsAllowed(params.userOp.sender),
             validateOperation(params.userOp),
             estimateGasCosts(params.userOp, params.entryPoint),
             IF params.len < 3 THEN Throw
             ELSE filterApplicable(params.policies))

\* what the handler returned, sent as the body of the reply as it is
RawResult(result) ==
    [kind |-> "raw", status |-> 200, id |-> NoId, code |-> 0, message |-> "",
     result |-> result]

\* the POST / handler whose switch has the case pm_validateSponsorshipPolicies
paymasterRootWithPolicies(q, service, clock1, clock2) ==
    IF q.method = "pm_validateSponsorshipPolicies"
    THEN LET validationResult == validateSponsorshipPolicies(q.params)
         IN  IF validationResult.ok
             THEN Respond(q, RawResult(validationResult.v))
             ELSE Respond(q, Uncaught(
                      "Failed to validate sponsorship policies"))
    ELSE paymasterRoot(q, service, clock1, clock2)

\* the POST /validateSponsorshipPolicies handler: body {userOp, entryPoint,
\* policies}
validateSponsorshipPoliciesRoute(q) ==
    LET validationResult == validateSponsorshipPolicies(q.params)
    IN  IF validationResult.ok
        THEN Respond(q, ResultEnvelope(1, validationResult.v))
        ELSE Respond(q, ErrorEnvelope(1,
                 "Failed to validate sponsorship policies"))

PolicySamples ==
    {<<>>, <<Policy(TRUE)>>, <<Policy(FALSE)>>,
     <<Policy(TRUE), Policy(FALSE)>>, <<Policy(TRUE), NullPolicy>>}

\* requests with all three params, without the policies and without any
PolicyRequests ==
    { RootRequest("pm_validateSponsorshipPolicies",
                  PolicyParams(3, BaseOp, policies)) :
        policies \in PolicySamples }
    \union
    { RootRequest("pm_validateSponsorshipPolicies", p) :
        p \in {PolicyParams(3, NoOp, <<Policy(TRUE)>>),
               PolicyParams(2, BaseOp, <<>>),
               PolicyParams(0, NoOp, <<>>)} }
    \union
    { RootRequest("eth_sendUserOperation", PolicyParams(3, BaseOp, <<>>)) }

ReceivePolicy(r) ==
    /\ Free(r)
    /\ \E q \in PolicyRequests :
         reqs' = [reqs EXCEPT ![r] =
                    paymasterRootWithPolicies([q EXCEPT !.id = RequestId(r)],
                                              PaymasterService(config),
                                              now, now)]
    /\ UNCHANGED <<now, chainRuntimes, calc>>

ReceiveValidate(r) ==
    /\ Free(r)
    /\ \E q \in PolicyRequests :
         /\ q.method = "pm_validateSponsorshipPolicies"
         /\ reqs' = [reqs EXCEPT ![r] =
                       validateSponsorshipPoliciesRoute(
                           [q EXCEPT !.route = "/validateSponsorshipPolicies",
                                     !.method = ""])]
    /\ UNCHANGED <<now, chainRuntimes, calc>>

NextPolicy ==
    \/ \E r \in Slots : ReceivePolicy(r)
    \/ \E r \in Slots : ReceiveValidate(r)

SpecPolicy == Init /\ [][NextPolicy]_vars

\* isSponsored is there, reason with false only, sponsorshipInfo with true
\* only
PolicyShaped(result) ==
    /\ "isSponsored" \in DOMAIN result
    /\ result.isSponsored \in BOOLEAN
    /\ "reason" \in DOMAIN result <=> ~result.isSponsored
    /\ "sponsorshipInfo" \in DOMAIN result <=> result.isSponsored

CallDataSizes == {0, 1, 36, 3124, 3125, 3126, 4374, 4375, 4376, 6874, 6875, 6876}

\* a hex string of n bytes
BytesOf(n) == [i \in 1..(2 * n) |-> (i % 16)]

SizedOps ==
    { [BaseOp EXCEPT !.callData = BytesOf(n), !.initCode = initCode] :
        n \in CallDataSizes, initCode \in {Undefined, <<>>, <<10, 11>>} }

\* pm_getPaymasterStubData arrives at POST /1 of the multi-chain service
ReceiveSized ==
    /\ reqs[1].pc = "idle"
    /\ \E userOp \in SizedOps :
         reqs' = [reqs EXCEPT ![1] =
                    paymaster(
                        [RpcRequest(Chain1, "pm_getPaymasterStubData",
                                    Params(4, userOp, EntryPointV07, -1))
                           EXCEPT !.id = RequestId(1)],
                        chainRuntimes, now)]
    /\ UNCHANGED <<now, chainRuntimes, calc>>

\* pm_getPaymasterStubData arrives at POST / of the single-chain service
ReceiveSizedRoot ==
    /\ reqs[1].pc = "idle"
    /\ \E userOp \in SizedOps :
         reqs' = [reqs EXCEPT ![1] =
                    paymasterRoot(
                        [RootRequest("pm_getPaymasterStubData",
                                     Params(4, userOp, EntryPointV07, -1))
                           EXCEPT !.id = RequestId(1)],
                        PaymasterService(config), now, now)]
    /\ UNCHANGED <<now, chainRuntimes, calc>>

NextLimits ==
    \/ ReceiveSized
    \/ ReceiveSizedRoot
    \/ NetworkReturns(1)
    \/ NetworkFails(1)
    \/ SignerReturns(1)
    \/ SignerFails(1)

SpecLimits == Init /\ [][NextLimits]_vars

\* the stub result of slot r
StubResult(r) ==
    /\ Done(r)
    /\ reqs[r].method = "pm_getPaymasterStubData"
    /\ reqs[r].response.kind = "result"

\* C25: for callData of n bytes the stub result carries
\* paymasterVerificationGasLimit = min(40000 + 16n + (40000 when initCode is
\* non-empty), 150000) and paymasterPostOpGasLimit =
\* min(max(15000 + 8n, 40000), 50000): the first within 40000..150000, the
\* second within 40000..50000
C25_StubGasLimits ==
    \A r \in Slots :
        StubResult(r) =>
            LET userOp == reqs[r].params.userOp
                n == Len(userOp.callData) \div 2
                deploy == IF userOp.initCode \in {Undefined, <<>>} THEN 0
                          ELSE 40000
                verification == NibblesToNat(
                    reqs[r].response.result.paymasterVerificationGasLimit)
                postOp == NibblesToNat(
                    reqs[r].response.result.paymasterPostOpGasLimit)
                Least(a, b) == IF a <= b THEN a ELSE b
                Most(a, b) == IF a >= b THEN a ELSE b
            IN  /\ verification = Least(40000 + 16 * n + deploy, 150000)
                /\ postOp = Least(Most(15000 + 8 * n, 40000), 50000)
                /\ verification \in 40000..150000
                /\ postOp \in 40000..50000

\* a stub result for call data large enough for both caps, with initCode
C25_Witness ==
    \E r \in Slots :
        /\ StubResult(r)
        /\ Len(reqs[r].params.userOp.callData) = 2 * 6876
        /\ reqs[r].params.userOp.initCode = <<10, 11>>
        /\ NibblesToNat(
               reqs[r].response.result.paymasterVerificationGasLimit) = 150000
        /\ NibblesToNat(reqs[r].response.result.paymasterPostOpGasLimit) = 50000

\* the digest signed for the authorization of slot q is the hash over q's
\* preimage, and the authorization ends in the signature of that digest
SignedOverPreimage(q) ==
    /\ q.preimage.ok /\ q.userOpHash.ok /\ q.signature.ok
    /\ q.signature.v = signMessage(q.signer, q.userOpHash.v)
    /\ IF q.route = "/paymasterAndData"
       THEN q.userOpHash =
                calculateUserOpHash(
                    [q.params.userOp EXCEPT !.paymasterAndData = q.preimage.v],
                    q.params.entryPoint, getNetwork(q.chainNum).chainId)
       ELSE q.userOpHash =
                getUserOpHash(q.params.userOp, q.preimage.v, Number(q.chainId))

AddressedRuntime(q) ==
    IF q.route = "/" THEN PaymasterService(config)
    ELSE Runtime(chainRuntimes, q.chainId)

\* the id of that chain
AddressedChainId(q) ==
    IF q.route = "/" THEN getNetwork(PaymasterService(config).provider).chainId
    ELSE Number(q.chainId)

\* signer, paymaster address (signed and returned) and chain id of the
\* authorization of slot q are those of the addressed chain
BelongsToAddressedChain(q) ==
    /\ q.signer = AddressedRuntime(q).signer
    /\ q.response.result.paymaster = AddressedRuntime(q).paymasterContract.target
    /\ q.preimage.ok =>
         /\ SubSeq(q.preimage.v, 1, 40) =
                AddressedRuntime(q).paymasterContract.target
         /\ q.userOpHash = getUserOpHash(q.params.userOp, q.preimage.v,
                                         AddressedChainId(q))

PmResult(r) ==
    /\ Done(r)
    /\ reqs[r].method \in {"pm_getPaymasterStubData", "pm_getPaymasterData"}
    /\ reqs[r].response.kind = "result"

\* C27: in every successful pm_getPaymasterStubData or pm_getPaymasterData
\* response the signer, the paymaster address of the signed preimage, the
\* paymaster address of the result and the chain id of the digest belong to
\* the chain the request was addressed to
C27_BelongsToAddressedChain ==
    \A r \in Slots : PmResult(r) => BelongsToAddressedChain(reqs[r])

\* the same of the multi-chain service alone
MultiChainBelongs ==
    \A r \in Slots :
        (PmResult(r) /\ reqs[r].route = "/:chainId") =>
            BelongsToAddressedChain(reqs[r])

\* 0 <= maxPriorityFeePerGas <= maxFeePerGas in a tier of the result
TierOrdered(tier) ==
    /\ BigLeq(BigOf(0), ParseHex(tier.maxPriorityFeePerGas))
    /\ BigLeq(ParseHex(tier.maxPriorityFeePerGas), ParseHex(tier.maxFeePerGas))

\* C28: for fee data whose gas price and priority fee are non-negative or
\* missing, every tier of the result has
\* 0 <= maxPriorityFeePerGas <= maxFeePerGas
C28_TiersOrdered ==
    calc.phase = "out" =>
        /\ TierOrdered(calc.result.slow)
        /\ TierOrdered(calc.result.standard)
        /\ TierOrdered(calc.result.fast)

\* the tiers are ordered when the gas price is missing or at least the
\* priority fee the tiers start from, 3/2 of the reported one
OrderedAboveScaledPriority ==
    (/\ calc.phase = "out"
     /\ \/ calc.feeData.gasPrice = Null
        \/ calc.feeData.gasPrice.mag = <<>>
        \/ BigLeq(BigDiv(BigMul(BigOrDefault(calc.feeData.maxPriorityFeePerGas,
                                             DEFAULT_PRIORITY_FEE), 3), 2),
                  calc.feeData.gasPrice))
    => /\ TierOrdered(calc.result.slow)
       /\ TierOrdered(calc.result.standard)
       /\ TierOrdered(calc.result.fast)

\* the reply of slot r is a JSON-RPC envelope, with a result or an error
Enveloped(r) ==
    /\ Done(r)
    /\ reqs[r].response.kind \in {"result", "error"}

\* C29: every envelope the dispatcher returns, result or error, whatever the
\* method, carries the id of the request it answers
C29_EnvelopeCarriesRequestId ==
    \A r \in Slots : Enveloped(r) => reqs[r].response.id = reqs[r].id

\* the same of POST /:chainId alone
ChainEnvelopeCarriesRequestId ==
    \A r \in Slots :
        (Enveloped(r) /\ reqs[r].route = "/:chainId") =>
            reqs[r].response.id = reqs[r].id

(***************************************************************************)
(* POST /sponsor and sponsorUserOperation of the first draft               *)
(* (SpecSponsor).                                                          *)
(***************************************************************************)
\* the in-memory whitelist of isSenderWhitelisted, by chain
whitelist ==
    [c \in {1, 5} |->
       IF c = 1 THEN {[i \in 1..40 |-> 1], [i \in 1..40 |-> 2]}
       ELSE {[i \in 1..40 |-> 3], [i \in 1..40 |-> 4]}]

\* the comparison is of lower-cased strings: of the nibbles
isSenderWhitelisted(sender, chainId) ==
    IF chainId \notin DOMAIN whitelist THEN TRUE
    ELSE sender \in whitelist[chainId]

\* 0xA0b86991c6218b36c1d19D4a2e9Eb0cE3606eB48
USDC ==
    <<10, 0, 11, 8, 6, 9, 9, 1, 12, 6, 2, 1, 8, 11, 3, 6, 12, 1, 13, 1,
      9, 13, 4, 10, 2, 14, 9, 14, 11, 0, 12, 14, 3, 6, 0, 6, 14, 11, 4, 8>>

\* 0xdAC17F958D2ee523a2206206994597C13D831ec7
USDT ==
    <<13, 10, 12, 1, 7, 15, 9, 5, 8, 13, 2, 14, 14, 5, 2, 3, 10, 2, 2, 0,
      6, 2, 0, 6, 9, 9, 4, 5, 9, 7, 12, 1, 3, 13, 8, 3, 1, 14, 12, 7>>

\* 0x5FF137D4b0FDCD49DcA30c7CF57E578a026d2789
EntryPointGoerli ==
    <<5, 15, 15, 1, 3, 7, 13, 4, 11, 0, 15, 13, 12, 13, 4, 9, 13, 12, 10, 3,
      0, 12, 7, 12, 15, 5, 7, 14, 5, 7, 8, 10, 0, 2, 6, 13, 2, 7, 8, 9>>

supportedContracts ==
    [c \in {1, 5} |->
       IF c = 1 THEN {USDC, USDT} ELSE {EntryPointGoerli, ZeroAddress}]

\* the factory address at the head of initCode, or the sender
extractTargetContract(userOp) ==
    IF userOp.initCode # Undefined /\ userOp.initCode # <<>>
    THEN SubSeq(userOp.initCode, 1,
                IF Len(userOp.initCode) < 40 THEN Len(userOp.initCode) ELSE 40)
    ELSE userOp.sender

isContractSupported(contractAddress, chainId) ==
    IF chainId \notin DOMAIN supportedContracts THEN TRUE
    ELSE IF ZeroAddress \in supportedContracts[chainId] THEN TRUE
    ELSE contractAddress \in supportedContracts[chainId]

hasExceededRateLimit(sender, chainId) == FALSE

isOperationTypeSupported(userOp) == TRUE

\* BigInt(1000000) of applySponsorshipPolicy
maxGasLimit == 1000000

\* callGasLimit + verificationGasLimit + preVerificationGas of an operation
\* that has the three
GasLimitSum(userOp) ==
    AddN(AddN(userOp.callGasLimit, userOp.verificationGasLimit),
         userOp.preVerificationGas)

\* applySponsorshipPolicy: returns, or throws on the first check that fails;
\* BigInt(undefined) throws as well
applySponsorshipPolicy(userOp, entryPoint, chainId) ==
    IF ~isSenderWhitelisted(userOp.sender, chainId) THEN Throw
    ELSE IF ~isContractSupported(extractTargetContract(userOp), chainId)
    THEN Throw
    ELSE IF Undefined \in {userOp.callGasLimit, userOp.verificationGasLimit,
                           userOp.preVerificationGas}
    THEN Throw
    ELSE IF LessN(NatToNibbles(maxGasLimit), GasLimitSum(userOp)) THEN Throw
    ELSE IF hasExceededRateLimit(userOp.sender, chainId) THEN Throw
    ELSE IF ~isOperationTypeSupported(userOp) THEN Throw
    ELSE Ok(TRUE)

\* estimateUserOperationGas: the operation's own limits, with defaults for
\* the two that may be missing
estimateUserOperationGas(userOp, entryPoint, chainId) ==
    [callGasLimit |-> userOp.callGasLimit,
     verificationGasLimit |->
         OrDefault(userOp.verificationGasLimit, NatToNibbles(100000)),
     preVerificationGas |->
         OrDefault(userOp.preVerificationGas, NatToNibbles(21000))]

\* BigInt.toString(): the decimal digits (of values the model's integers hold)
BigIntToString(x) == DecimalDigits(NibblesToNat(x))

\* the number a decimal string stands for where the operation is encoded
FromDecimalString(digits) == NatToNibbles(DecimalValue(digits))

\* updateGasParameters: each limit becomes 110% of its estimate, written in
\* decimal, unless the operation's own limit is higher
updateGasParameters(userOp, estimatedGas) ==
    LET Margin(x) == DivSmallN(MulSmallN(x, 110), 100)
        callGasLimit == Margin(estimatedGas.callGasLimit)
        verificationGasLimit == Margin(estimatedGas.verificationGasLimit)
        preVerificationGas == Margin(estimatedGas.preVerificationGas)
    IN  [userOp EXCEPT
           !.callGasLimit =
               IF LessN(callGasLimit, userOp.callGasLimit)
               THEN userOp.callGasLimit
               ELSE FromDecimalString(BigIntToString(callGasLimit)),
           !.verificationGasLimit =
               IF LessN(verificationGasLimit,
                        OrDefault(userOp.verificationGasLimit, <<>>))
               THEN userOp.verificationGasLimit
               ELSE FromDecimalString(BigIntToString(verificationGasLimit)),
           !.preVerificationGas =
               IF LessN(preVerificationGas,
                        OrDefault(userOp.preVerificationGas, <<>>))
               THEN userOp.preVerificationGas
               ELSE FromDecimalString(BigIntToString(preVerificationGas))]

\* the replies of POST /sponsor for what generatePaymasterAndData left
AsSponsored(q) ==
    IF q.pc # "done" THEN q
    ELSE IF q.response.kind = "plain"
    THEN Respond(q, PlainResult(
             [status |-> "success",
              userOperation |->
                  [q.params.userOp EXCEPT
                     !.paymasterAndData = q.response.result.paymasterAndData]]))
    ELSE Respond(q, PlainError(500, "Failed to sponsor operation"))

\* POST /sponsor and sponsorUserOperation up to `await provider.getNetwork()`
\* of generatePaymasterAndData; q.params.userOperation keeps the operation of
\* the body, q.params.userOp becomes the operation that is signed
sponsorUserOperation(q, wallets, clock) ==
    LET userOp == q.params.userOperation
        updatedUserOp ==
            updateGasParameters(
                userOp, estimateUserOperationGas(userOp, q.params.entryPoint,
                                                 q.chainNum))
    IN  IF q.params.entryPoint = Undefined \/ q.params.entryPoint = <<>>
           \/ q.chainNum = 0
        THEN Respond(q, PlainError(400, "Missing required parameters"))
        ELSE IF ~isChainSupported(q.chainNum)
        THEN Respond(q, PlainError(400, "Chain ID is not supported"))
        ELSE IF ~applySponsorshipPolicy(userOp, q.params.entryPoint,
                                        q.chainNum).ok
        THEN Respond(q, PlainError(500, "Failed to sponsor operation"))
        ELSE AsSponsored(generatePaymasterAndData(
                 [q EXCEPT !.params.userOp = updatedUserOp], wallets, clock))

\* the body of a POST /sponsor: {userOperation, entryPoint, chainId}
SponsorRequest(userOp, entryPoint, chainId) ==
    [IdleRequest EXCEPT
       !.route = "/sponsor", !.chainNum = chainId,
       !.params = [len |-> 3, userOp |-> userOp, entryPoint |-> entryPoint,
                   chainId |-> N(1),
                   context |-> [allowAllBundlers |-> -1, token |-> Undefined],
                   userOperation |-> userOp]]

\* operations with gas limits far below the cap, at the cap, above it, and
\* with a limit missing
GasSamples ==
    { [BaseOp EXCEPT !.callGasLimit = N(g[1]), !.verificationGasLimit = N(g[2]),
                     !.preVerificationGas = N(g[3])] :
        g \in {<<5, 1, 7>>, <<500000, 100000, 21000>>,
               <<800000, 150000, 50000>>, <<900000, 100000, 1>>,
               <<909090, 0, 0>>, <<909091, 0, 0>>} }
    \union {[BaseOp EXCEPT !.verificationGasLimit = Undefined]}

SponsorRequests ==
    { SponsorRequest(userOp, EntryPointV07, 137) : userOp \in GasSamples }
    \union
    { SponsorRequest([BaseOp EXCEPT !.sender = sender, !.initCode = initCode],
                     EntryPointV07, 1) :
        sender \in {Address(1), [i \in 1..40 |-> 1]},
        initCode \in {<<>>, USDC \o <<10, 11>>} }
    \union
    { SponsorRequest([BaseOp EXCEPT !.sender = sender], EntryPointV07, 5) :
        sender \in {Address(1), [i \in 1..40 |-> 3]} }
    \union
    { SponsorRequest(BaseOp, EntryPointV07, 42),
      SponsorRequest(BaseOp, Address(85), 137) }

ReceiveSponsor(r) ==
    /\ Free(r)
    /\ \E q \in SponsorRequests :
         reqs' = [reqs EXCEPT ![r] =
                    sponsorUserOperation(
                        q, initializeProviders(paymasterConfig).v, now)]
    /\ UNCHANGED <<now, chainRuntimes, calc>>

\* provider.getNetwork() resolves for generatePaymasterAndData
SponsorNetworkReturns(r) ==
    /\ reqs[r].pc = "awaitNetwork"
    /\ reqs' = [reqs EXCEPT ![r] =
                  AsSponsored(HashForWallet(
                      reqs[r], initializeProviders(paymasterConfig).v,
                      getNetwork(reqs[r].chainNum).chainId))]
    /\ UNCHANGED <<now, chainRuntimes, calc>>

\* wallet.signMessage resolves and sponsorUserOperation returns
SponsorSignerReturns(r) ==
    /\ reqs[r].pc = "awaitSign"
    /\ reqs' = [reqs EXCEPT ![r] =
                  AsSponsored(PaymasterAndDataResult(
                      reqs[r],
                      signMessage(reqs[r].signer, reqs[r].userOpHash.v)))]
    /\ UNCHANGED <<now, chainRuntimes, calc>>

\* provider.getNetwork() or wallet.signMessage rejects
SponsorAwaitFails(r) ==
    /\ reqs[r].pc \in {"awaitNetwork", "awaitSign"}
    /\ reqs' = [reqs EXCEPT ![r] =
                  Respond(reqs[r],
                          PlainError(500, "Failed to sponsor operation"))]
    /\ UNCHANGED <<now, chainRuntimes, calc>>

NextSponsor ==
    \/ \E r \in Slots : ReceiveSponsor(r)
    \/ \E r \in Slots : SponsorNetworkReturns(r)
    \/ \E r \in Slots : SponsorSignerReturns(r)
    \/ \E r \in Slots : SponsorAwaitFails(r)

SpecSponsor == Init /\ [][NextSponsor]_vars

WithinGasCap(userOp) ==
    /\ Undefined \notin {userOp.callGasLimit, userOp.verificationGasLimit,
                         userOp.preVerificationGas}
    /\ LeqN(GasLimitSum(userOp), NatToNibbles(maxGasLimit))

\* the policy rejects the operation the request of slot q came with
PolicyRejects(q) ==
    ~applySponsorshipPolicy(q.params.userOperation, q.params.entryPoint,
                            q.chainNum).ok

\* C30: an operation handed to the signer by sponsorUserOperation has, with
\* the gas limits it is signed and returned with, callGasLimit +
\* verificationGasLimit + preVerificationGas <= 1,000,000, and an operation
\* the sponsorship policy rejects is never signed
C30_SignedWithinGasCap ==
    \A r \in Slots :
        reqs[r].route = "/sponsor" =>
            /\ reqs[r].signCalls > 0 => WithinGasCap(reqs[r].params.userOp)
            /\ PolicyRejects(reqs[r]) => reqs[r].signCalls = 0

\* the same of the operation as it came, before the limits are raised
ReceivedWithinGasCap ==
    \A r \in Slots :
        reqs[r].route = "/sponsor" =>
            /\ reqs[r].signCalls > 0 =>
                   WithinGasCap(reqs[r].params.userOperation)
            /\ PolicyRejects(reqs[r]) =>
                   reqs[r].signCalls = 0 /\ reqs[r].hashCalls = 0

\* an operation received at the cap is returned signed over it
SignedOverGasCap ==
    \E r \in Slots :
        /\ reqs[r].route = "/sponsor"
        /\ Authorized(r)
        /\ GasLimitSum(reqs[r].params.userOperation) = NatToNibbles(1000000)
        /\ GasLimitSum(reqs[r].response.result.userOperation)
               = NatToNibbles(1100000)

====
